---- MODULE Spec2Model ----
(***************************************************************************)
(* Verification model of the RabbitMQ messaging core of the repository:   *)
(*   - the broker topology declared in shared/src/messaging/constants.ts  *)
(*   - RabbitMQConnection.publish / consume / handleMessageWithRetry      *)
(*   - MessageProcessor.createRetryHandler / createIdempotentHandler /    *)
(*     createBatchProcessor                                               *)
(*   - SagaOrchestrator.startSaga / handleStepComplete / handleStepFailed *)
(* Queue names and routing keys are written as sequences of words         *)
(* ("order.created" is <<"order","created">>) so that topic patterns can  *)
(* be matched word by word; exchange names are strings.                   *)
(***************************************************************************)
EXTENDS Integers, Sequences, FiniteSets, TLC

VARIABLES
    queues,         \* broker: queue name -> sequence of ready messages
    unacked,        \* broker: deliveries no terminal action was issued for
    delayed,        \* broker: messages held by the x-delayed-message exchange
    consumers,      \* RabbitMQConnection.consumers: queue -> handler kind
    processed,      \* processedMessagesCache of the idempotent handler
    batch,          \* createBatchProcessor: the closure's batch array
    flushTimer,     \* createBatchProcessor: the closure's flushTimer handle
    nextId,         \* number of logical messages published so far
    last,           \* record of the most recent delivery callback run
    trace,          \* per logical message: what happened to it so far
    runs,           \* idempotent handler: its invocations and where they stand
    activeSteps,    \* SagaOrchestrator.activeSteps: sagaId -> step list
    events,         \* SagaOrchestrator: publish calls made, in order
    lastCall,       \* SagaOrchestrator: the most recent call and its effect
    started,        \* number of startSaga calls made
    handled,        \* number of handleStepComplete/handleStepFailed calls made
    suspended,      \* handleStepFailed invocations waiting at a publish await
    state,          \* CircuitBreaker.state
    failures,       \* CircuitBreaker.failures
    lastFailureTime,\* CircuitBreaker.lastFailureTime
    now,            \* the clock Date.now() reads
    inflight,       \* execute() calls awaiting their operation
    orphans,        \* operations still running after their call timed out
    probe,          \* the call that moved the breaker to HALF_OPEN, while in flight
    alone,          \* no other call has been in flight together with the probe
    overlapped,     \* two operations have been in flight at the same time
    streak,         \* consecutive failed operations since the last success
    executed,       \* number of execute() calls made
    lastExec,       \* the most recent step of an execute() call
    requestCache,   \* api-gateway: correlation ids of the calls awaiting a reply
    timers,         \* api-gateway: per call, the state of its timeout timer
    settles,        \* api-gateway: per call, the resolve/reject calls made on it
    publishing,     \* api-gateway: calls whose publish() promise is pending
    answered,       \* api-gateway: calls the order service answered before the deadline
    responses,      \* api-gateway: the replies waiting on the response queue
    replied,        \* api-gateway: number of replies responders have sent
    lastGw,         \* api-gateway: the most recent step and what it saw
    rpcCalls,       \* rpc(): per call, "none", "pending", "resolved" or "rejected"
    rpcTimers,      \* rpc(): per call, the state of its timeout timer
    rpcConsumers,   \* rpc(): calls whose reply consumer is registered on the channel
    rpcReplies,     \* rpc(): per call, messages delivered to its reply consumer
    lastRpc,        \* rpc(): the most recent step
    connection,     \* RabbitMQConnection.connection: 0 (null) or the connection's number
    channel,        \* RabbitMQConnection.channel: 0 (null) or its connection's number
    isConnecting,   \* RabbitMQConnection.isConnecting
    reconnectAttempts, \* RabbitMQConnection.reconnectAttempts
    registered,     \* RabbitMQConnection.consumers, in insertion order
    chPrefetch,     \* the prefetch count last set on the channel
    subs,           \* broker: the live subscriptions and their unacked deliveries
    tasks,          \* the connect()/reconnect() invocations and where they stand
    emitted,        \* events the connection object has emitted
    dials,          \* number of amqp.connect calls made
    drops,          \* number of connection and channel failures so far
    open,           \* broker: the connections of this object that are open
    lastConn        \* the most recent step of the connection object

vars == <<queues, unacked, delayed, consumers, processed, batch, flushTimer, nextId,
          last, trace, runs, activeSteps, events, lastCall, started, handled, suspended,
          state, failures, lastFailureTime, now, inflight, orphans, probe, alone,
          overlapped, streak, executed, lastExec,
          requestCache, timers, settles, publishing, answered, responses, replied, lastGw,
          rpcCalls, rpcTimers, rpcConsumers, rpcReplies, lastRpc,
          connection, channel, isConnecting, reconnectAttempts, registered,
          chPrefetch, subs, tasks, emitted, dials, drops, open, lastConn>>

dispatchVars == <<queues, unacked, delayed, consumers, processed, batch, flushTimer,
                  nextId, last, trace, runs>>
sagaVars == <<activeSteps, events, lastCall, started, handled, suspended>>
breakerVars == <<state, failures, lastFailureTime, now, inflight, orphans, probe,
                 alone, overlapped, streak, executed, lastExec>>
gatewayVars == <<requestCache, timers, settles, publishing, answered, responses, replied, lastGw>>
rpcVars == <<rpcCalls, rpcTimers, rpcConsumers, rpcReplies, lastRpc>>
connVars == <<connection, channel, isConnecting, reconnectAttempts, registered,
              chPrefetch, subs, tasks, emitted, dials, drops, open, lastConn>>

----------------------------------------------------------------------------
(* Bounds of the model                                                     *)

MaxMessages == 2        \* logical messages an external producer publishes
MaxRetryHeader == 3     \* largest retryCount header a producer may set
MaxConsumers == 1       \* queues with a registered consumer
MaxSagas == 1           \* startSaga calls per behaviour
MaxSagaCalls == 3       \* handleStepComplete/handleStepFailed calls per behaviour
MaxSteps == 3           \* length of a saga's step list
FailureThreshold == 2   \* CircuitBreakerConfig.failureThreshold of the breaker
ResetTimeout == 2       \* CircuitBreakerConfig.resetTimeout, in clock ticks
MaxTime == 4            \* clock ticks per behaviour
MaxCallers == 2         \* callers of execute() that may overlap
MaxExecutes == 5        \* execute() calls per behaviour
MaxCalls == 2           \* gateway request/reply calls per behaviour
MaxReplies == 3         \* replies responders send per behaviour
MaxRpcCalls == 2        \* rpc() calls per behaviour
MaxReconnectAttempts == 2  \* RabbitMQConfig.maxReconnectAttempts
MaxTasks == 2           \* reconnect() invocations that may be under way at once
MaxDials == 4           \* amqp.connect calls per behaviour
MaxDrops == 2           \* connection and channel failures per behaviour
MaxUnacked == 2         \* unacknowledged deliveries shown per subscription
MaxDeliveries == 3      \* invocations of the idempotent handler per behaviour

----------------------------------------------------------------------------
(* Broker topology: constants.ts                                           *)

ExchangeTable ==
    { <<"orders",                 "topic">>,
      <<"order.saga",             "direct">>,
      <<"inventory",              "topic">>,
      <<"payments",               "topic">>,
      <<"payment.saga",           "direct">>,
      <<"shipping",               "topic">>,
      <<"notifications",          "fanout">>,
      <<"notifications.priority", "headers">>,
      <<"dlx",                    "direct">>,
      <<"retry",                  "direct">>,
      <<"delayed",                "x-delayed-message">> }

ExchangeNames == { e[1] : e \in ExchangeTable }

EXCHANGES == [ x \in ExchangeNames |-> (CHOOSE e \in ExchangeTable : e[1] = x)[2] ]

DefaultExchange == ""

NoExchange == "none"
NoKey == <<>>
NoTTL == 0

\* one queue declaration: dead-letter exchange, dead-letter routing key, TTL
QArgs(dlxName, dlrk, ttl) == [dlx |-> dlxName, dlrk |-> dlrk, ttl |-> ttl]

Plain == QArgs(NoExchange, NoKey, NoTTL)

ServiceQueueTable ==
    { <<<<"order", "commands">>,      Plain>>,
      <<<<"order", "events">>,        Plain>>,
      <<<<"order", "saga">>,          Plain>>,
      <<<<"inventory", "commands">>,  QArgs("dlx", <<"inventory", "dlq">>, NoTTL)>>,
      <<<<"inventory", "events">>,    Plain>>,
      <<<<"payment", "commands">>,    QArgs("dlx", <<"payment", "dlq">>, NoTTL)>>,
      <<<<"payment", "events">>,      Plain>>,
      <<<<"payment", "saga">>,        Plain>>,
      <<<<"shipping", "commands">>,   QArgs("dlx", <<"shipping", "dlq">>, NoTTL)>>,
      <<<<"shipping", "events">>,     Plain>>,
      <<<<"notification", "email">>,  Plain>>,
      <<<<"notification", "sms">>,    Plain>>,
      <<<<"notification", "push">>,   Plain>> }

DeadLetterQueueTableWithTTL ==
    { <<<<"order", "dlq">>,           QArgs("orders", NoKey, 30000)>>,
      <<<<"inventory", "dlq">>,       QArgs("inventory", NoKey, 30000)>>,
      <<<<"payment", "dlq">>,         QArgs("payments", NoKey, 60000)>>,
      <<<<"shipping", "dlq">>,        QArgs("shipping", NoKey, 120000)>>,
      <<<<"notification", "dlq">>,    Plain>> }

\* the dead-letter queues: no TTL, no dead-letter exchange of their own
DeadLetterQueueTable ==
    { <<<<"order", "dlq">>,           Plain>>,
      <<<<"inventory", "dlq">>,       Plain>>,
      <<<<"payment", "dlq">>,         Plain>>,
      <<<<"shipping", "dlq">>,        Plain>>,
      <<<<"notification", "dlq">>,    Plain>> }

\* retry queues with TTL, request-reply queues, health check and monitoring
TimedQueueTable ==
    { <<<<"order", "retry">>,         QArgs("orders", NoKey, 30000)>>,
      <<<<"inventory", "retry">>,     QArgs("inventory", NoKey, 30000)>>,
      <<<<"payment", "retry">>,       QArgs("payments", NoKey, 60000)>>,
      <<<<"shipping", "retry">>,      QArgs("shipping", NoKey, 120000)>>,
      <<<<"order", "rpc">>,           QArgs(NoExchange, NoKey, 30000)>>,
      <<<<"inventory", "rpc">>,       QArgs(NoExchange, NoKey, 15000)>>,
      <<<<"payment", "rpc">>,         QArgs(NoExchange, NoKey, 45000)>>,
      <<<<"shipping", "rpc">>,        QArgs(NoExchange, NoKey, 30000)>>,
      <<<<"health", "check">>,        QArgs(NoExchange, NoKey, 5000)>>,
      <<<<"metrics", "collection">>,  Plain>> }

QueueTable == ServiceQueueTable \cup DeadLetterQueueTable \cup TimedQueueTable

QueueNames == { e[1] : e \in QueueTable }

QUEUES == [ q \in QueueNames |-> (CHOOSE e \in QueueTable : e[1] = q)[2] ]

Binding(q, ex, rk) == [queue |-> q, exchange |-> ex, routingKey |-> rk]

QUEUE_BINDINGS ==
    { Binding(<<"order", "events">>,       "orders",        <<"order", "*">>),
      Binding(<<"order", "saga">>,         "order.saga",    <<"order", "saga", "*">>),
      Binding(<<"inventory", "commands">>, "inventory",     <<"inventory", "reserve">>),
      Binding(<<"inventory", "commands">>, "inventory",     <<"inventory", "release">>),
      Binding(<<"inventory", "commands">>, "inventory",     <<"inventory", "commit">>),
      Binding(<<"inventory", "events">>,   "inventory",     <<"inventory", "*">>),
      Binding(<<"payment", "commands">>,   "payments",      <<"payment", "authorize">>),
      Binding(<<"payment", "commands">>,   "payments",      <<"payment", "capture">>),
      Binding(<<"payment", "commands">>,   "payments",      <<"payment", "refund">>),
      Binding(<<"payment", "events">>,     "payments",      <<"payment", "*">>),
      Binding(<<"payment", "saga">>,       "payment.saga",  <<"payment", "saga", "*">>),
      Binding(<<"shipping", "commands">>,  "shipping",      <<"shipment", "create">>),
      Binding(<<"shipping", "commands">>,  "shipping",      <<"shipment", "update">>),
      Binding(<<"shipping", "events">>,    "shipping",      <<"shipment", "*">>),
      Binding(<<"notification", "email">>, "notifications", <<>>),
      Binding(<<"notification", "sms">>,   "notifications", <<>>),
      Binding(<<"notification", "push">>,  "notifications", <<>>),
      Binding(<<"notification", "email">>, "orders",        <<"order", "created">>),
      Binding(<<"notification", "email">>, "payments",      <<"payment", "captured">>),
      Binding(<<"notification", "sms">>,   "shipping",      <<"shipment", "delivered">>),
      Binding(<<"order", "dlq">>,          "dlx",           <<"order", "dlq">>),
      Binding(<<"inventory", "dlq">>,      "dlx",           <<"inventory", "dlq">>),
      Binding(<<"payment", "dlq">>,        "dlx",           <<"payment", "dlq">>),
      Binding(<<"shipping", "dlq">>,       "dlx",           <<"shipping", "dlq">>),
      Binding(<<"notification", "dlq">>,   "dlx",           <<"notification", "dlq">>) }

\* the dead-letter queues: the queues bound to the dead-letter exchange
DeadLetterQueues == { b.queue : b \in { c \in QUEUE_BINDINGS : c.exchange = "dlx" } }

----------------------------------------------------------------------------
(* Broker routing (AMQP exchange semantics the code relies on)             *)

\* topic match of a routing key against a binding pattern; the patterns of
\* constants.ts use only "*" (exactly one word)
TopicMatch(pattern, key) ==
    /\ Len(pattern) = Len(key)
    /\ \A i \in 1..Len(pattern) : pattern[i] = "*" \/ pattern[i] = key[i]

BindingMatches(b, ex, key) ==
    /\ b.exchange = ex
    /\ CASE EXCHANGES[ex] = "topic"  -> TopicMatch(b.routingKey, key)
         [] EXCHANGES[ex] = "fanout" -> TRUE
         [] EXCHANGES[ex] = "direct" -> b.routingKey = key
         [] OTHER                    -> b.routingKey = key

\* the set of queues a message published to (ex, key) is put on
Route(ex, key) ==
    IF ex = DefaultExchange
    THEN { q \in QueueNames : q = key }
    ELSE IF ex \in ExchangeNames
         THEN { b.queue : b \in { c \in QUEUE_BINDINGS : BindingMatches(c, ex, key) } }
         ELSE {}

----------------------------------------------------------------------------
(* Messages                                                                *)

NoMessageKey == "none"
\* the business keys (message.id) producers put in a body
Keys == { "k1", "k2" }

\* a message on the wire: the JSON body (id of the logical message, its
\* business key `id`), whether the content parses, and the headers the retry
\* logic reads and writes
WireMsg(id, key, ok, rc, xdelay, rk) ==
    [id |-> id, key |-> key, ok |-> ok, rc |-> rc, delay |-> xdelay, rk |-> rk]

NoHeaders == [h \in {} |-> 0]

PublishOptions(delay, headers) == [delay |-> delay, headers |-> headers]

\* RabbitMQConnection.publish: the publish call handed to the channel.
\* retryCount defaults to 0 and is overridden by options.headers; a delay
\* sets x-delay and redirects the message to the delayed exchange.
Publish(exchange, routingKey, message, options) ==
    [ exchange   |-> IF options.delay # 0 THEN "delayed" ELSE exchange,
      routingKey |-> routingKey,
      msg        |-> WireMsg(message.id, message.key, TRUE,
                             IF "retryCount" \in DOMAIN options.headers
                             THEN options.headers.retryCount ELSE 0,
                             options.delay, routingKey) ]

RECURSIVE Pow2(_)
Pow2(n) == IF n = 0 THEN 1 ELSE 2 * Pow2(n - 1)

----------------------------------------------------------------------------
(* Handlers.  A handler run is summarised by the terminal actions it       *)
(* issued on the delivery (acts), the publish calls it made (pubs), the    *)
(* error it threw (threw), the outcomes of the business-handler            *)
(* invocations it made (calls) and the closure state it leaves (st).       *)

NoError == "none"

Result(acts, pubs, threw, calls, st) ==
    [acts |-> acts, pubs |-> pubs, threw |-> threw, calls |-> calls, st |-> st]

Closure(proc, bat, timer) == [processed |-> proc, batch |-> bat, flushTimer |-> timer]

\* a business handler (handleOrderCommand, handleSagaEvent, ...): takes no
\* terminal action itself, either returns or throws
OriginalHandler(message, outcome, st) ==
    Result(<<>>, <<>>, IF outcome = "throw" THEN "HandlerError" ELSE NoError,
           <<outcome>>, st)

\* MessageProcessor.createRetryHandler(originalHandler, maxRetries, baseDelay)
CreateRetryHandler(message, outcome, st, maxRetries, baseDelay) ==
    LET retryCount == message.rc
        r == OriginalHandler(message, outcome, st)
    IN IF r.threw = NoError THEN r
       ELSE IF retryCount < maxRetries
            THEN Result(r.acts \o <<"ack">>,
                        r.pubs \o << Publish("retry", <<"retry">>, message,
                                       PublishOptions(baseDelay * Pow2(retryCount),
                                                      [retryCount |-> retryCount + 1])) >>,
                        NoError, r.calls, r.st)
            ELSE Result(r.acts \o <<"nack">>, r.pubs, NoError, r.calls, r.st)

CreateIdempotentHandlerForgets(message, outcome, st) ==
    LET messageId == message.key
    IN IF messageId = NoMessageKey
       THEN OriginalHandler(message, outcome, st)
       ELSE IF messageId \in st.processed
            THEN Result(<<"ack">>, <<>>, NoError, <<>>, st)
            ELSE OriginalHandler(message, outcome, st)

CreateIdempotentHandlerRecordsFailure(message, outcome, st) ==
    LET messageId == message.key
    IN IF messageId = NoMessageKey
       THEN OriginalHandler(message, outcome, st)
       ELSE IF messageId \in st.processed
            THEN Result(<<"ack">>, <<>>, NoError, <<>>, st)
            ELSE LET r == OriginalHandler(message, outcome, st)
                 IN Result(r.acts, r.pubs, r.threw, r.calls,
                           [r.st EXCEPT !.processed = @ \cup {messageId}])

\* MessageProcessor.createIdempotentHandler(originalHandler, cache)
CreateIdempotentHandler(message, outcome, st) ==
    LET messageId == message.key
    IN IF messageId = NoMessageKey
       THEN OriginalHandler(message, outcome, st)
       ELSE IF messageId \in st.processed
            THEN Result(<<"ack">>, <<>>, NoError, <<>>, st)
            ELSE LET r == OriginalHandler(message, outcome, st)
                 IN IF r.threw = NoError
                    THEN Result(r.acts, r.pubs, NoError, r.calls,
                                [r.st EXCEPT !.processed = @ \cup {messageId}])
                    ELSE r

BatchSize == 2

\* createBatchProcessor: flush().  flushTimer is "none" (null), "armed" (a
\* timeout is pending) or "stale" (the handle of a timeout that has fired).
Flush(outcome, st) ==
    IF st.batch = <<>>
    THEN [threw |-> NoError, st |-> st]
    ELSE IF outcome = "throw"
         THEN [threw |-> "HandlerError", st |-> st]
         ELSE [threw |-> NoError,
               st |-> [st EXCEPT !.batch = <<>>, !.flushTimer = "none"]]

\* createBatchProcessor: the handler
CreateBatchProcessor(message, outcome, st) ==
    LET pushed == [st EXCEPT !.batch = Append(@, message.id)]
    IN IF Len(pushed.batch) >= BatchSize
       THEN LET f == Flush(outcome, pushed)
            IN IF f.threw = NoError
               THEN Result(<<"ack">>, <<>>, NoError, <<outcome>>, f.st)
               ELSE Result(<<>>, <<>>, f.threw, <<outcome>>, f.st)
       ELSE Result(<<"ack">>, <<>>, NoError, <<>>,
                   [pushed EXCEPT !.flushTimer = IF @ = "none" THEN "armed" ELSE @])

HandlerKinds == { "plain", "retry", "idempotent", "batch" }

MaxRetriesDefault == 3
BaseDelayDefault == 1000

\* the handler registered with consume(), by kind
Handler(kind, message, outcome, st) ==
    CASE kind = "plain"      -> OriginalHandler(message, outcome, st)
      [] kind = "retry"      -> CreateRetryHandler(message, outcome, st,
                                                   MaxRetriesDefault, BaseDelayDefault)
      [] kind = "idempotent" -> CreateIdempotentHandler(message, outcome, st)
      [] kind = "batch"      -> CreateBatchProcessor(message, outcome, st)

----------------------------------------------------------------------------
(* RabbitMQConnection.consume and handleMessageWithRetry                   *)

ConsumeOptions(autoAck, maxRetries, retryDelay) ==
    [autoAck |-> autoAck, maxRetries |-> maxRetries, retryDelay |-> retryDelay]

\* no consume() call of the repository sets autoAck, maxRetries or retryDelay
DefaultConsumeOptions == ConsumeOptions(FALSE, 0, 0)

\* JavaScript's `x || d` on a number
OrDefault(x, d) == IF x = 0 THEN d ELSE x

HandleMessageWithRetrySameCount(message, kind, outcome, st, options) ==
    LET maxRetries == OrDefault(options.maxRetries, 3)
        retryDelay == OrDefault(options.retryDelay, 1000)
        retryCount == message.rc
        r == Handler(kind, message, outcome, st)
    IN IF r.threw = NoError
       THEN Result(r.acts \o (IF ~options.autoAck THEN <<"ack">> ELSE <<>>),
                   r.pubs, NoError, r.calls, r.st)
       ELSE IF retryCount < maxRetries
            THEN Result(r.acts \o <<"ack">>,
                        r.pubs \o << Publish("retry", <<"retry">>, message,
                                       PublishOptions(retryDelay * Pow2(retryCount),
                                                      [retryCount |-> retryCount])) >>,
                        NoError, r.calls, r.st)
            ELSE Result(r.acts \o <<"nack">>, r.pubs, "RetryExhaustedError",
                        r.calls, r.st)

HandleMessageWithRetryLinearDelay(message, kind, outcome, st, options) ==
    LET maxRetries == OrDefault(options.maxRetries, 3)
        retryDelay == OrDefault(options.retryDelay, 1000)
        retryCount == message.rc
        r == Handler(kind, message, outcome, st)
    IN IF r.threw = NoError
       THEN Result(r.acts \o (IF ~options.autoAck THEN <<"ack">> ELSE <<>>),
                   r.pubs, NoError, r.calls, r.st)
       ELSE IF retryCount < maxRetries
            THEN Result(r.acts \o <<"ack">>,
                        r.pubs \o << Publish("retry", <<"retry">>, message,
                                       PublishOptions(retryDelay * (retryCount + 1),
                                                      [retryCount |-> retryCount + 1])) >>,
                        NoError, r.calls, r.st)
            ELSE Result(r.acts \o <<"nack">>, r.pubs, "RetryExhaustedError",
                        r.calls, r.st)

HandleMessageWithRetryNoAck(message, kind, outcome, st, options) ==
    LET maxRetries == OrDefault(options.maxRetries, 3)
        retryDelay == OrDefault(options.retryDelay, 1000)
        retryCount == message.rc
        r == Handler(kind, message, outcome, st)
    IN IF r.threw = NoError
       THEN Result(r.acts \o (IF ~options.autoAck THEN <<"ack">> ELSE <<>>),
                   r.pubs, NoError, r.calls, r.st)
       ELSE IF retryCount < maxRetries
            THEN Result(r.acts,
                        r.pubs \o << Publish("retry", <<"retry">>, message,
                                       PublishOptions(retryDelay * Pow2(retryCount),
                                                      [retryCount |-> retryCount + 1])) >>,
                        NoError, r.calls, r.st)
            ELSE Result(r.acts \o <<"nack">>, r.pubs, "RetryExhaustedError",
                        r.calls, r.st)

HandleMessageWithRetryOffByOne(message, kind, outcome, st, options) ==
    LET maxRetries == OrDefault(options.maxRetries, 3)
        retryDelay == OrDefault(options.retryDelay, 1000)
        retryCount == message.rc
        r == Handler(kind, message, outcome, st)
    IN IF r.threw = NoError
       THEN Result(r.acts \o (IF ~options.autoAck THEN <<"ack">> ELSE <<>>),
                   r.pubs, NoError, r.calls, r.st)
       ELSE IF retryCount <= maxRetries
            THEN Result(r.acts \o <<"ack">>,
                        r.pubs \o << Publish("retry", <<"retry">>, message,
                                       PublishOptions(retryDelay * Pow2(retryCount),
                                                      [retryCount |-> retryCount + 1])) >>,
                        NoError, r.calls, r.st)
            ELSE Result(r.acts \o <<"nack">>, r.pubs, "RetryExhaustedError",
                        r.calls, r.st)

HandleMessageWithRetry(message, kind, outcome, st, options) ==
    LET maxRetries == OrDefault(options.maxRetries, 3)
        retryDelay == OrDefault(options.retryDelay, 1000)
        retryCount == message.rc
        r == Handler(kind, message, outcome, st)
    IN IF r.threw = NoError
       THEN Result(r.acts \o (IF ~options.autoAck THEN <<"ack">> ELSE <<>>),
                   r.pubs, NoError, r.calls, r.st)
       ELSE IF retryCount < maxRetries
            THEN Result(r.acts \o <<"ack">>,
                        r.pubs \o << Publish("retry", <<"retry">>, message,
                                       PublishOptions(retryDelay * Pow2(retryCount),
                                                      [retryCount |-> retryCount + 1])) >>,
                        NoError, r.calls, r.st)
            ELSE Result(r.acts \o <<"nack">>, r.pubs, "RetryExhaustedError",
                        r.calls, r.st)

\* the callback consume() passes to channel.consume: parse, run the handler
\* through handleMessageWithRetry, nack without requeue on any error.
\* `error` is what the callback's catch block saw.
ConsumeCallback(message, kind, outcome, st, options) ==
    IF ~message.ok
    THEN [ acts  |-> IF ~options.autoAck THEN <<"nack">> ELSE <<>>,
           pubs  |-> <<>>, calls |-> <<>>, st |-> st, error |-> "SyntaxError" ]
    ELSE LET r == HandleMessageWithRetry(message, kind, outcome, st, options)
         IN [ acts  |-> IF r.threw # NoError /\ ~options.autoAck
                        THEN r.acts \o <<"nack">> ELSE r.acts,
              pubs  |-> r.pubs, calls |-> r.calls, st |-> r.st,
              error |-> r.threw ]

----------------------------------------------------------------------------
(* Broker state changes                                                    *)

Enqueue(qs, targets, m) ==
    [q \in QueueNames |-> IF q \in targets THEN Append(qs[q], m) ELSE qs[q]]

\* where the broker republishes a message rejected by, or expired on, queue q
DeadLetterKey(q, m) == IF QUEUES[q].dlrk = NoKey THEN m.rk ELSE QUEUES[q].dlrk

DeadLetterTargets(q, m) ==
    IF QUEUES[q].dlx = NoExchange THEN {} ELSE Route(QUEUES[q].dlx, DeadLetterKey(q, m))

DeadLettered(q, m) == [m EXCEPT !.rk = DeadLetterKey(q, m)]

\* the publish calls of one callback run that reach the delayed exchange,
\* and the queues after the others have been routed
DelayedOf(pubs) ==
    LET sel == SelectSeq(pubs, LAMBDA p : p.exchange = "delayed")
    IN [i \in 1..Len(sel) |-> sel[i].msg]

RECURSIVE RouteAll(_, _)
RouteAll(qs, pubs) ==
    IF pubs = <<>> THEN qs
    ELSE LET p == Head(pubs)
         IN RouteAll(IF p.exchange = "delayed" THEN qs
                     ELSE Enqueue(qs, Route(p.exchange, p.routingKey), p.msg),
                     Tail(pubs))

\* immediate publishes of one callback run that no binding routes anywhere
Unroutable(pubs) ==
    Len(SelectSeq(pubs, LAMBDA p : p.exchange # "delayed"
                                   /\ Route(p.exchange, p.routingKey) = {}))

----------------------------------------------------------------------------
(* History kept for the properties                                         *)

\* rc0: the retryCount the producer published the message with (-1: not yet
\* published); calls: outcomes of the business-handler runs on it; copies:
\* the retry copies published; settled: the first terminal action of each of
\* its deliveries; dlq/lost: copies put on a dead-letter queue / dropped;
\* key: the business key of its body
NoTrace ==
    [ rc0 |-> -1, key |-> NoMessageKey, calls |-> <<>>, copies |-> <<>>,
      settled |-> <<>>, dlq |-> 0, lost |-> 0 ]

NoDelivery ==
    [ queue |-> <<>>, kind |-> "none", msg |-> WireMsg(0, NoMessageKey, TRUE, 0, 0, <<>>),
      outcome |-> "none", hthrew |-> NoError, hacts |-> <<>>,
      acts |-> <<>>, pubs |-> <<>>, calls |-> <<>>,
      error |-> NoError, dlq |-> {}, seen |-> FALSE ]

Ids == 1..MaxMessages

----------------------------------------------------------------------------
(* Actions of the dispatch specification                                   *)

\* the queues the services consume with retry handling
ConsumableQueues ==
    { <<"order", "commands">>, <<"order", "saga">>, <<"inventory", "commands">>,
      <<"payment", "commands">>, <<"shipping", "commands">> }

\* where producers publish: the command queues through their exchange (or the
\* default exchange when no binding leads to them), and a retry queue
Targets ==
    { <<DefaultExchange, <<"order", "commands">>>>,
      <<DefaultExchange, <<"order", "saga">>>>,
      <<"inventory", <<"inventory", "reserve">>>>,
      <<"payments", <<"payment", "authorize">>>>,
      <<"shipping", <<"shipment", "create">>>>,
      <<DefaultExchange, <<"order", "retry">>>> }

NoCall ==
    [ op |-> "none", sagaId |-> "", step |-> "", before |-> [s \in {} |-> <<>>],
      published |-> <<>> ]

SagaInit ==
    /\ activeSteps = [s \in {} |-> <<>>]
    /\ events = <<>>
    /\ lastCall = NoCall
    /\ started = 0
    /\ handled = 0
    /\ suspended = {}

DeliveryIds == 1..MaxDeliveries

\* an invocation of the idempotent handler: the id of its message and
\* where it stands
Run(key, pc) == [key |-> key, pc |-> pc]

DispatchInit ==
    /\ queues = [q \in QueueNames |-> <<>>]
    /\ unacked = {}
    /\ delayed = <<>>
    /\ consumers = [q \in {} |-> "none"]
    /\ processed = {}
    /\ batch = <<>>
    /\ flushTimer = "none"
    /\ nextId = 0
    /\ last = NoDelivery
    /\ trace = [i \in Ids |-> NoTrace]
    /\ runs = [d \in DeliveryIds |-> Run(NoMessageKey, "waiting")]

NoCaller == 0

NoExec ==
    [ op |-> "none", caller |-> NoCaller, outcome |-> "none", error |-> "none",
      state |-> "CLOSED", failures |-> 0, lastFailureTime |-> 0, streak |-> 0,
      at |-> 0, wasProbe |-> FALSE, wasAlone |-> FALSE, probing |-> FALSE ]

\* CircuitBreaker field initialisers: CLOSED, no failures, lastFailureTime 0
BreakerInit ==
    /\ state = "CLOSED"
    /\ failures = 0
    /\ lastFailureTime = 0
    /\ now = 0
    /\ inflight = {}
    /\ orphans = {}
    /\ probe = NoCaller
    /\ alone = FALSE
    /\ overlapped = FALSE
    /\ streak = 0
    /\ executed = 0
    /\ lastExec = NoExec

CallIds == 1..MaxCalls

NoId == 0

NoGw ==
    [ op |-> "none", id |-> NoId, error |-> FALSE, acked |-> FALSE,
      cacheBefore |-> {}, settlesBefore |-> [i \in CallIds |-> <<>>],
      timerBefore |-> "none" ]

\* api-gateway: const requestCache = new Map()
GatewayInit ==
    /\ requestCache = {}
    /\ timers = [i \in CallIds |-> "none"]
    /\ settles = [i \in CallIds |-> <<>>]
    /\ publishing = {}
    /\ answered = {}
    /\ responses = <<>>
    /\ replied = 0
    /\ lastGw = NoGw

RpcIds == 1..MaxRpcCalls

NoRpc == [op |-> "none", id |-> NoId, matched |-> FALSE, acked |-> FALSE]

RpcInit ==
    /\ rpcCalls = [i \in RpcIds |-> "none"]
    /\ rpcTimers = [i \in RpcIds |-> "none"]
    /\ rpcConsumers = {}
    /\ rpcReplies = [i \in RpcIds |-> 0]
    /\ lastRpc = NoRpc

\* task 0 is the owning service's setup, the others are reconnect() calls
TaskIds == 0..MaxTasks

NoConn == [op |-> "none", task |-> 0, restored |-> FALSE]

\* a connect()/reconnect() invocation: where it stands, the queues it has
\* still to consume, and the channel its pending consume was issued on
Task(pc, todo, on) == [pc |-> pc, todo |-> todo, on |-> on]

Idle == Task("idle", <<>>, 0)

PrefetchDefault == 10

\* RabbitMQConnection field initialisers
ConnInit ==
    /\ connection = 0
    /\ channel = 0
    /\ isConnecting = FALSE
    /\ reconnectAttempts = 0
    /\ registered = <<>>
    /\ chPrefetch = 0
    /\ subs = {}
    /\ tasks = [t \in TaskIds |-> Idle]
    /\ emitted = {}
    /\ dials = 0
    /\ drops = 0
    /\ open = {}
    /\ lastConn = NoConn

Init == DispatchInit /\ SagaInit /\ BreakerInit /\ GatewayInit /\ RpcInit /\ ConnInit

\* RabbitMQConnection.consume(queue, handler): register a consumer
Consume(q, kind) ==
    /\ q \notin DOMAIN consumers
    /\ Cardinality(DOMAIN consumers) < MaxConsumers
    /\ consumers' = [x \in DOMAIN consumers \cup {q} |->
                        IF x = q THEN kind ELSE consumers[x]]
    /\ UNCHANGED <<queues, unacked, delayed, processed, batch, flushTimer,
                   nextId, last, trace>>
    /\ UNCHANGED runs
    /\ UNCHANGED sagaVars
    /\ UNCHANGED breakerVars
    /\ UNCHANGED <<gatewayVars, rpcVars, connVars>>

\* the queues declared with x-message-ttl
TTLQueues == { q \in QueueNames : QUEUES[q].ttl # NoTTL }

\* a producer publishes a new logical message to a destination that leads to
\* a consumed queue or to a queue with a TTL; a body that does not parse
\* carries no key the handlers could read
ClientPublish(t, rc, key, ok) ==
    /\ nextId < MaxMessages
    /\ Route(t[1], t[2]) \cap (DOMAIN consumers \cup TTLQueues) # {}
    /\ IF ok THEN key \in Keys ELSE rc = 0 /\ key = NoMessageKey
    /\ LET m == WireMsg(nextId + 1, key, ok, rc, 0, t[2])
           targets == Route(t[1], t[2])
       IN /\ queues' = Enqueue(queues, targets, m)
          /\ trace' = [trace EXCEPT ![nextId + 1].rc0 = rc,
                                    ![nextId + 1].key = key,
                                    ![nextId + 1].lost =
                                        IF targets = {} THEN @ + 1 ELSE @]
    /\ nextId' = nextId + 1
    /\ UNCHANGED <<unacked, delayed, consumers, processed, batch, flushTimer, last>>
    /\ UNCHANGED runs
    /\ UNCHANGED sagaVars
    /\ UNCHANGED breakerVars
    /\ UNCHANGED <<gatewayVars, rpcVars, connVars>>

\* the broker delivers the head of a consumed queue and the consume()
\* callback runs to completion; the first terminal action settles the
\* delivery at the broker
Deliver(q, outcome) ==
    /\ q \in DOMAIN consumers
    /\ queues[q] # <<>>
    /\ \E m \in { Head(queues[q]) }, st \in { Closure(processed, batch, flushTimer) } :
       \E h \in { Handler(consumers[q], m, outcome, st) },
          r \in { ConsumeCallback(m, consumers[q], outcome, st, DefaultConsumeOptions) },
          rest \in { [queues EXCEPT ![q] = Tail(@)] } :
       \E first \in { IF r.acts = <<>> THEN "none" ELSE r.acts[1] } :
       \E dl \in { IF first = "nack" THEN DeadLetterTargets(q, m) ELSE {} } :
       \E settledQs \in
             { CASE first = "nack"    -> Enqueue(rest, dl, DeadLettered(q, m))
                 [] first = "requeue" -> [rest EXCEPT ![q] = <<m>> \o @]
                 [] OTHER             -> rest } :
          /\ queues' = RouteAll(settledQs, r.pubs)
          /\ unacked' = IF first = "none" THEN unacked \cup {[queue |-> q, msg |-> m]}
                        ELSE unacked
          /\ delayed' = delayed \o DelayedOf(r.pubs)
          /\ processed' = r.st.processed
          /\ batch' = r.st.batch
          /\ flushTimer' = r.st.flushTimer
          /\ last' = [ queue |-> q, kind |-> consumers[q], msg |-> m,
                       outcome |-> outcome,
                       hthrew |-> IF m.ok THEN h.threw ELSE NoError,
                       hacts |-> IF m.ok THEN h.acts ELSE <<>>,
                       acts |-> r.acts, pubs |-> r.pubs,
                       calls |-> r.calls, error |-> r.error, dlq |-> dl,
                       seen |-> m.key \in processed ]
          /\ trace' = [trace EXCEPT ![m.id] =
                        [ rc0     |-> @.rc0,
                          key     |-> @.key,
                          calls   |-> @.calls \o r.calls,
                          copies  |-> @.copies \o [i \in 1..Len(r.pubs) |->
                                         [rc |-> r.pubs[i].msg.rc,
                                          delay |-> r.pubs[i].msg.delay]],
                          settled |-> IF first = "none" THEN @.settled
                                      ELSE Append(@.settled, first),
                          dlq     |-> @.dlq + Cardinality(dl \cap DeadLetterQueues),
                          lost    |-> @.lost + Unroutable(r.pubs)
                                       + (IF first = "nack" /\ dl = {} THEN 1 ELSE 0) ]]
    /\ UNCHANGED <<consumers, nextId>>
    /\ UNCHANGED runs
    /\ UNCHANGED sagaVars
    /\ UNCHANGED breakerVars
    /\ UNCHANGED <<gatewayVars, rpcVars, connVars>>

\* the delay of a message held by the delayed exchange elapses and the
\* exchange routes it by its bindings
DelayElapsed(i) ==
    /\ i \in 1..Len(delayed)
    /\ LET m == delayed[i]
           targets == Route("delayed", m.rk)
       IN /\ queues' = Enqueue(queues, targets, m)
          /\ trace' = [trace EXCEPT ![m.id].lost = IF targets = {} THEN @ + 1 ELSE @]
    /\ delayed' = [j \in 1..(Len(delayed) - 1) |->
                      IF j < i THEN delayed[j] ELSE delayed[j + 1]]
    /\ UNCHANGED <<unacked, consumers, processed, batch, flushTimer, nextId, last>>
    /\ UNCHANGED runs
    /\ UNCHANGED sagaVars
    /\ UNCHANGED breakerVars
    /\ UNCHANGED <<gatewayVars, rpcVars, connVars>>

\* the head of a queue declared with x-message-ttl expires: it is
\* dead-lettered to the queue's dead-letter exchange, or dropped
Expire(q) ==
    /\ QUEUES[q].ttl # NoTTL
    /\ queues[q] # <<>>
    /\ LET m == Head(queues[q])
           dl == DeadLetterTargets(q, m)
       IN /\ queues' = Enqueue([queues EXCEPT ![q] = Tail(@)], dl, DeadLettered(q, m))
          /\ trace' = [trace EXCEPT ![m.id].lost = IF dl = {} THEN @ + 1 ELSE @,
                                    ![m.id].dlq = @ + Cardinality(dl \cap DeadLetterQueues)]
    /\ UNCHANGED <<unacked, delayed, consumers, processed, batch, flushTimer,
                   nextId, last>>
    /\ UNCHANGED runs
    /\ UNCHANGED sagaVars
    /\ UNCHANGED breakerVars
    /\ UNCHANGED <<gatewayVars, rpcVars, connVars>>

\* createBatchProcessor: the timeout set by scheduleFlush fires and runs
\* flush(); only a successful flush of a non-empty batch resets flushTimer
TimerFlush(outcome) ==
    /\ flushTimer = "armed"
    /\ LET f == Flush(outcome, Closure(processed, batch, flushTimer))
       IN /\ batch' = f.st.batch
          /\ flushTimer' = IF f.st.flushTimer = "armed" THEN "stale"
                           ELSE f.st.flushTimer
    /\ UNCHANGED <<queues, unacked, delayed, consumers, processed, nextId,
                   last, trace>>
    /\ UNCHANGED runs
    /\ UNCHANGED sagaVars
    /\ UNCHANGED breakerVars
    /\ UNCHANGED <<gatewayVars, rpcVars, connVars>>

Outcomes == { "ok", "throw" }

Next ==
    \/ \E q \in ConsumableQueues, kind \in HandlerKinds : Consume(q, kind)
    \/ \E t \in Targets, rc \in 0..MaxRetryHeader,
          key \in Keys \cup {NoMessageKey}, ok \in BOOLEAN :
          ClientPublish(t, rc, key, ok)
    \/ \E q \in ConsumableQueues, outcome \in Outcomes : Deliver(q, outcome)
    \/ \E i \in 1..MaxMessages : DelayElapsed(i)
    \/ \E q \in QueueNames : Expire(q)
    \/ \E outcome \in Outcomes : TimerFlush(outcome)

Spec == Init /\ [][Next]_vars

----------------------------------------------------------------------------
(* SagaOrchestrator                                                        *)

SagaIds == { "s1" }

StepNames == <<"A", "B", "C", "D", "E">>

\* the step names sagas are built from; "X" is a name no saga contains
Steps == { StepNames[i] : i \in 1..MaxSteps }
UnknownStep == "X"

\* step lists: distinct names, as in OrderService.createOrder
StepLists ==
    UNION { { l \in [1..n -> Steps] : \A i, j \in 1..n : i # j => l[i] # l[j] }
            : n \in 1..MaxSteps }

InitialData == "d0"
Results == { "r1" }
Errors == { "e1" }

IndexOfMissingIsFirst(steps, x) ==
    IF \E i \in 1..Len(steps) : steps[i] = x
    THEN CHOOSE i \in 1..Len(steps) :
            steps[i] = x /\ \A j \in 1..(i - 1) : steps[j] # x
    ELSE 1

\* Array.prototype.indexOf, 1-based; 0 stands for JavaScript's -1
IndexOf(steps, x) ==
    IF \E i \in 1..Len(steps) : steps[i] = x
    THEN CHOOSE i \in 1..Len(steps) :
            steps[i] = x /\ \A j \in 1..(i - 1) : steps[j] # x
    ELSE 0

\* Array.prototype.slice(from) and slice(0, to), 1-based
SliceFrom(steps, from) == SubSeq(steps, from, Len(steps))
SliceTo(steps, to) == SubSeq(steps, 1, to)

\* Array.prototype.reverse
Reverse(steps) == [i \in 1..Len(steps) |-> steps[Len(steps) + 1 - i]]

\* one connection.publish('saga', routingKey, body) call
SagaEvent(routingKey, sagaId, step, payload, remainingSteps) ==
    [ exchange |-> "saga", routingKey |-> routingKey, sagaId |-> sagaId,
      step |-> step, payload |-> payload, remainingSteps |-> remainingSteps ]

Without(f, k) == [x \in DOMAIN f \ {k} |-> f[x]]
With(f, k, v) == [x \in DOMAIN f \cup {k} |-> IF x = k THEN v ELSE f[x]]

Call(op, sagaId, step, published) ==
    [ op |-> op, sagaId |-> sagaId, step |-> step, before |-> activeSteps,
      published |-> published ]

\* SagaOrchestrator.startSaga(sagaId, steps, initialData)
StartSaga(sagaId, steps, initialData) ==
    /\ started < MaxSagas
    /\ LET published == << SagaEvent("saga.start", sagaId, steps[1], initialData,
                                     SliceFrom(steps, 2)) >>
       IN /\ activeSteps' = With(activeSteps, sagaId, steps)
          /\ events' = events \o published
          /\ lastCall' = Call("startSaga", sagaId, steps[1], published)
    /\ started' = started + 1
    /\ UNCHANGED <<handled, suspended>>
    /\ UNCHANGED dispatchVars
    /\ UNCHANGED breakerVars
    /\ UNCHANGED <<gatewayVars, rpcVars, connVars>>

StepCompleteEventsKeepNext(sagaId, steps, completedStep, result) ==
    LET stepIndex == IndexOf(steps, completedStep)
        remainingSteps == SliceFrom(steps, stepIndex + 1)
    IN IF stepIndex = 0 THEN <<>>
       ELSE IF Len(remainingSteps) = 0
            THEN << SagaEvent("saga.completed", sagaId, "", result, <<>>) >>
            ELSE << SagaEvent("saga.continue", sagaId, remainingSteps[1], result,
                              SliceFrom(remainingSteps, 1)) >>

\* the events handleStepComplete publishes for the step list of an active saga
StepCompleteEvents(sagaId, steps, completedStep, result) ==
    LET stepIndex == IndexOf(steps, completedStep)
        remainingSteps == SliceFrom(steps, stepIndex + 1)
    IN IF stepIndex = 0 THEN <<>>
       ELSE IF Len(remainingSteps) = 0
            THEN << SagaEvent("saga.completed", sagaId, "", result, <<>>) >>
            ELSE << SagaEvent("saga.continue", sagaId, remainingSteps[1], result,
                              SliceFrom(remainingSteps, 2)) >>

\* SagaOrchestrator.handleStepComplete(sagaId, completedStep, result)
HandleStepComplete(sagaId, completedStep, result) ==
    /\ handled < MaxSagaCalls
    /\ LET known == sagaId \in DOMAIN activeSteps
           published == IF known
                        THEN StepCompleteEvents(sagaId, activeSteps[sagaId],
                                                completedStep, result)
                        ELSE <<>>
           done == /\ known
                   /\ IndexOf(activeSteps[sagaId], completedStep) = Len(activeSteps[sagaId])
       IN /\ activeSteps' = IF done THEN Without(activeSteps, sagaId) ELSE activeSteps
          /\ events' = events \o published
          /\ lastCall' = Call("handleStepComplete", sagaId, completedStep, published)
    /\ handled' = handled + 1
    /\ UNCHANGED <<started, suspended>>
    /\ UNCHANGED dispatchVars
    /\ UNCHANGED breakerVars
    /\ UNCHANGED <<gatewayVars, rpcVars, connVars>>

\* the steps handleStepFailed compensates, in the order it publishes them
CompletedStepsUnreversed(steps, stepIndex) == SliceTo(steps, stepIndex - 1)

CompletedSteps(steps, stepIndex) == Reverse(SliceTo(steps, stepIndex - 1))

StepFailedEventsFailedFirst(sagaId, steps, failedStep, error) ==
    LET stepIndex == IndexOf(steps, failedStep)
        completedSteps == CompletedSteps(steps, stepIndex)
    IN IF stepIndex = 0 THEN <<>>
       ELSE << SagaEvent("saga.failed", sagaId, failedStep, error, <<>>) >>
            \o [i \in 1..Len(completedSteps) |->
                  SagaEvent("saga.compensate", sagaId, completedSteps[i], error, <<>>)]

\* the events handleStepFailed publishes for the step list of an active saga
StepFailedEvents(sagaId, steps, failedStep, error) ==
    LET stepIndex == IndexOf(steps, failedStep)
        completedSteps == CompletedSteps(steps, stepIndex)
    IN IF stepIndex = 0 THEN <<>>
       ELSE [i \in 1..Len(completedSteps) |->
                SagaEvent("saga.compensate", sagaId, completedSteps[i], error, <<>>)]
            \o << SagaEvent("saga.failed", sagaId, failedStep, error, <<>>) >>

\* SagaOrchestrator.handleStepFailed(sagaId, failedStep, error)
HandleStepFailed(sagaId, failedStep, error) ==
    /\ handled < MaxSagaCalls
    /\ LET known == sagaId \in DOMAIN activeSteps
           published == IF known
                        THEN StepFailedEvents(sagaId, activeSteps[sagaId],
                                              failedStep, error)
                        ELSE <<>>
           removed == known /\ IndexOf(activeSteps[sagaId], failedStep) # 0
       IN /\ activeSteps' = IF removed THEN Without(activeSteps, sagaId) ELSE activeSteps
          /\ events' = events \o published
          /\ lastCall' = Call("handleStepFailed", sagaId, failedStep, published)
    /\ handled' = handled + 1
    /\ UNCHANGED <<started, suspended>>
    /\ UNCHANGED dispatchVars
    /\ UNCHANGED breakerVars
    /\ UNCHANGED <<gatewayVars, rpcVars, connVars>>

Null == "null"

\* SagaOrchestrator.getSagaStatus(sagaId)
GetSagaStatus(sagaId) ==
    IF sagaId \notin DOMAIN activeSteps THEN Null
    ELSE [steps |-> activeSteps[sagaId], active |-> TRUE]

SagaNext ==
    \/ \E sagaId \in SagaIds, steps \in StepLists : StartSaga(sagaId, steps, InitialData)
    \/ \E sagaId \in SagaIds, step \in Steps \cup {UnknownStep}, result \in Results :
          HandleStepComplete(sagaId, step, result)
    \/ \E sagaId \in SagaIds, step \in Steps \cup {UnknownStep}, error \in Errors :
          HandleStepFailed(sagaId, step, error)

SagaSpec == Init /\ [][SagaNext]_vars

----------------------------------------------------------------------------
(* SagaOrchestrator: calls that overlap at their awaits                    *)

\* connection.publish as the orchestrator sees it: the event is handed to the
\* channel, or the call throws because there is no channel
Published(event, ok) == IF ok THEN << event >> ELSE <<>>

\* handleStepComplete when connection.publish throws: what the method did
\* before the publish stays done
HandleStepCompleteThrows(sagaId, completedStep, result) ==
    /\ handled < MaxSagaCalls
    /\ sagaId \in DOMAIN activeSteps
    /\ IndexOf(activeSteps[sagaId], completedStep) # 0
    /\ LET done == IndexOf(activeSteps[sagaId], completedStep) = Len(activeSteps[sagaId])
       IN /\ activeSteps' = IF done THEN Without(activeSteps, sagaId) ELSE activeSteps
          /\ events' = events
          /\ lastCall' = Call("handleStepCompleteThrew", sagaId, completedStep, <<>>)
    /\ handled' = handled + 1
    /\ UNCHANGED <<started, suspended>>
    /\ UNCHANGED dispatchVars
    /\ UNCHANGED breakerVars
    /\ UNCHANGED <<gatewayVars, rpcVars, connVars>>

\* a handleStepFailed invocation waiting at an await, and the publish calls
\* it has still to make
Invocation(sagaId, failedStep, todo) ==
    [ sagaId |-> sagaId, failedStep |-> failedStep, todo |-> todo ]

\* one stretch of handleStepFailed between two awaits: it publishes the next
\* event of todo; before the last one ('saga.failed') it deletes the saga
FailedSegment(op, sagaId, failedStep, todo, ok) ==
    LET last_ == Len(todo) = 1
        published == Published(Head(todo), ok)
    IN /\ activeSteps' = IF last_ THEN Without(activeSteps, sagaId) ELSE activeSteps
       /\ events' = events \o published
       /\ lastCall' = Call(op, sagaId, failedStep, published)
       /\ suspended' = (suspended \ { Invocation(sagaId, failedStep, todo) })
                         \cup IF last_ \/ ~ok THEN {}
                              ELSE { Invocation(sagaId, failedStep, Tail(todo)) }

\* handleStepFailed from its call to its first await
HandleStepFailedBegins(sagaId, failedStep, error, ok) ==
    /\ handled < MaxSagaCalls
    /\ \E todo \in { IF sagaId \in DOMAIN activeSteps
                     THEN StepFailedEvents(sagaId, activeSteps[sagaId], failedStep, error)
                     ELSE <<>> } :
          IF todo = <<>>
          THEN /\ lastCall' = Call("handleStepFailed", sagaId, failedStep, <<>>)
               /\ UNCHANGED <<activeSteps, events, suspended>>
          ELSE FailedSegment("handleStepFailed", sagaId, failedStep, todo, ok)
    /\ handled' = handled + 1
    /\ UNCHANGED started
    /\ UNCHANGED dispatchVars
    /\ UNCHANGED breakerVars
    /\ UNCHANGED <<gatewayVars, rpcVars, connVars>>

\* handleStepFailed from one await to the next, or to its end
HandleStepFailedResumes(inv, ok) ==
    /\ inv \in suspended
    /\ FailedSegment("handleStepFailedResumed", inv.sagaId, inv.failedStep, inv.todo, ok)
    /\ UNCHANGED <<started, handled>>
    /\ UNCHANGED dispatchVars
    /\ UNCHANGED breakerVars
    /\ UNCHANGED <<gatewayVars, rpcVars, connVars>>

SagaAwaitNext ==
    \/ \E sagaId \in SagaIds, steps \in StepLists : StartSaga(sagaId, steps, InitialData)
    \/ \E sagaId \in SagaIds, step \in Steps \cup {UnknownStep}, result \in Results :
          HandleStepComplete(sagaId, step, result)
    \/ \E sagaId \in SagaIds, step \in Steps, result \in Results :
          HandleStepCompleteThrows(sagaId, step, result)
    \/ \E sagaId \in SagaIds, step \in Steps \cup {UnknownStep}, error \in Errors,
          ok \in BOOLEAN :
          HandleStepFailedBegins(sagaId, step, error, ok)
    \/ \E inv \in suspended, ok \in BOOLEAN : HandleStepFailedResumes(inv, ok)

SagaAwaitSpec == Init /\ [][SagaAwaitNext]_vars

----------------------------------------------------------------------------
(* CircuitBreaker.  execute() runs in two steps: the synchronous part up   *)
(* to the await (the state check and the start of the operation) and the   *)
(* continuation once the operation, or the timeout racing it, has settled. *)

Callers == 1..MaxCallers

Breaker(st, f, lft) == [state |-> st, failures |-> f, lastFailureTime |-> lft]

AdmitAtTimeout(b, t) ==
    IF b.state = "OPEN"
    THEN IF t - b.lastFailureTime >= ResetTimeout
         THEN [state |-> "HALF_OPEN", invoke |-> TRUE, error |-> "none"]
         ELSE [state |-> b.state, invoke |-> FALSE, error |-> "CircuitBreakerError"]
    ELSE [state |-> b.state, invoke |-> TRUE, error |-> "none"]

\* execute(), before the try block: what becomes of the state, whether the
\* operation is invoked, and the error thrown otherwise
Admit(b, t) ==
    IF b.state = "OPEN"
    THEN IF t - b.lastFailureTime > ResetTimeout
         THEN [state |-> "HALF_OPEN", invoke |-> TRUE, error |-> "none"]
         ELSE [state |-> b.state, invoke |-> FALSE, error |-> "CircuitBreakerError"]
    ELSE [state |-> b.state, invoke |-> TRUE, error |-> "none"]

\* CircuitBreaker.onSuccess
OnSuccess(b) ==
    Breaker(IF b.state = "HALF_OPEN" THEN "CLOSED" ELSE b.state, 0, b.lastFailureTime)

OnFailureOpensLate(b, t) ==
    Breaker(IF b.failures + 1 > FailureThreshold THEN "OPEN" ELSE b.state,
            b.failures + 1, t)

\* CircuitBreaker.onFailure
OnFailure(b, t) ==
    Breaker(IF b.failures + 1 >= FailureThreshold THEN "OPEN" ELSE b.state,
            b.failures + 1, t)

Exec(op, caller, outcome, error) ==
    [ op |-> op, caller |-> caller, outcome |-> outcome, error |-> error,
      state |-> state, failures |-> failures, lastFailureTime |-> lastFailureTime,
      streak |-> streak, at |-> now,
      wasProbe |-> caller = probe, wasAlone |-> alone,
      probing |-> probe # NoCaller ]

\* execute(operation) is called: rejected at once, or the operation starts
Execute(c) ==
    /\ c \notin inflight
    /\ c \notin orphans
    /\ executed < MaxExecutes
    /\ \E a \in { Admit(Breaker(state, failures, lastFailureTime), now) } :
          /\ state' = a.state
          /\ inflight' = IF a.invoke THEN inflight \cup {c} ELSE inflight
          /\ probe' = IF a.invoke /\ state = "OPEN" THEN c ELSE probe
          /\ alone' = IF a.invoke /\ state = "OPEN" THEN inflight = {}
                      ELSE IF a.invoke THEN FALSE ELSE alone
          /\ overlapped' = (overlapped \/ (a.invoke /\ inflight # {}))
          /\ lastExec' = Exec(IF a.invoke THEN "invoked" ELSE "rejected", c,
                              "none", a.error)
    /\ executed' = executed + 1
    /\ UNCHANGED <<failures, lastFailureTime, now, streak, orphans>>
    /\ UNCHANGED dispatchVars
    /\ UNCHANGED sagaVars
    /\ UNCHANGED <<gatewayVars, rpcVars, connVars>>

OperationOutcomes == { "ok", "throw", "timeout" }

\* the operation of call c, or the timeout racing it, settles and the rest
\* of execute() runs: onSuccess, or onFailure and rethrow
Settle(c, outcome) ==
    /\ c \in inflight
    /\ \E b \in { IF outcome = "ok"
                   THEN OnSuccess(Breaker(state, failures, lastFailureTime))
                   ELSE OnFailure(Breaker(state, failures, lastFailureTime), now) } :
          /\ state' = b.state
          /\ failures' = b.failures
          /\ lastFailureTime' = b.lastFailureTime
    /\ inflight' = inflight \ {c}
    /\ orphans' = IF outcome = "timeout" THEN orphans \cup {c} ELSE orphans
    /\ probe' = IF probe = c THEN NoCaller ELSE probe
    /\ alone' = IF probe = c THEN FALSE ELSE alone
    /\ streak' = IF outcome = "ok" THEN 0 ELSE streak + 1
    /\ lastExec' = Exec(IF outcome = "ok" THEN "success" ELSE "failure", c, outcome,
                        CASE outcome = "ok"      -> "none"
                          [] outcome = "throw"   -> "OperationError"
                          [] outcome = "timeout" -> "TimeoutError")
    /\ UNCHANGED <<now, overlapped, executed>>
    /\ UNCHANGED dispatchVars
    /\ UNCHANGED sagaVars
    /\ UNCHANGED <<gatewayVars, rpcVars, connVars>>

DiscardCountsLate(b, outcome, t) ==
    IF outcome = "ok" THEN OnSuccess(b) ELSE OnFailure(b, t)

\* Promise.race: the settlement of the loser is discarded
Discard(b, outcome, t) == b

LateOutcomes == { "ok", "throw" }

\* the operation of a call that has already been rejected by the timeout
\* settles at last
LateSettle(c, outcome) ==
    /\ c \in orphans
    /\ \E b \in { Discard(Breaker(state, failures, lastFailureTime), outcome, now) } :
          /\ state' = b.state
          /\ failures' = b.failures
          /\ lastFailureTime' = b.lastFailureTime
    /\ orphans' = orphans \ {c}
    /\ lastExec' = Exec("late", c, outcome, "none")
    /\ UNCHANGED <<now, inflight, probe, alone, overlapped, streak, executed>>
    /\ UNCHANGED dispatchVars
    /\ UNCHANGED sagaVars
    /\ UNCHANGED <<gatewayVars, rpcVars, connVars>>

\* time passes
Tick ==
    /\ now < MaxTime
    /\ now' = now + 1
    /\ UNCHANGED <<state, failures, lastFailureTime, inflight, orphans, probe, alone,
                   overlapped, streak, executed, lastExec>>
    /\ UNCHANGED dispatchVars
    /\ UNCHANGED sagaVars
    /\ UNCHANGED <<gatewayVars, rpcVars, connVars>>

BreakerNext ==
    \/ \E c \in Callers : Execute(c)
    \/ \E c \in Callers, outcome \in OperationOutcomes : Settle(c, outcome)
    \/ \E c \in Callers, outcome \in LateOutcomes : LateSettle(c, outcome)
    \/ Tick

BreakerSpec == Init /\ [][BreakerNext]_vars

----------------------------------------------------------------------------
(* createIdempotentHandler with deliveries in flight at the same time: the *)
(* handler runs to its await of originalHandler, and resumes when that     *)
(* promise settles.                                                        *)

\* a delivery reaches the idempotent handler: without an id the original
\* handler is called directly; a cached id is acknowledged and skipped;
\* otherwise the original handler is awaited
IdemDeliver(d, key) ==
    /\ runs[d].pc = "waiting"
    /\ \A e \in DeliveryIds : e < d => runs[e].pc # "waiting"
    /\ runs' = [runs EXCEPT ![d] = Run(key, IF key # NoMessageKey /\ key \in processed
                                           THEN "skipped" ELSE "running")]
    /\ UNCHANGED <<queues, unacked, delayed, consumers, processed, batch, flushTimer,
                   nextId, last, trace>>
    /\ UNCHANGED <<sagaVars, breakerVars, gatewayVars, rpcVars, connVars>>

\* the original handler of an invocation settles: after a success the id
\* is added to the cache, a failure is rethrown
IdemSettle(d, outcome) ==
    /\ runs[d].pc = "running"
    /\ runs' = [runs EXCEPT ![d].pc = IF outcome = "ok" THEN "done" ELSE "failed"]
    /\ processed' = IF outcome = "ok" /\ runs[d].key # NoMessageKey
                    THEN processed \cup {runs[d].key}
                    ELSE processed
    /\ UNCHANGED <<queues, unacked, delayed, consumers, batch, flushTimer,
                   nextId, last, trace>>
    /\ UNCHANGED <<sagaVars, breakerVars, gatewayVars, rpcVars, connVars>>

IdemNext ==
    \/ \E d \in DeliveryIds, key \in Keys \cup {NoMessageKey} : IdemDeliver(d, key)
    \/ \E d \in DeliveryIds, outcome \in {"ok", "throw"} : IdemSettle(d, outcome)

IdemSpec == Init /\ [][IdemNext]_vars

----------------------------------------------------------------------------
(* api-gateway request/reply: makeRPCCall / requestFromService and the     *)
(* response consumers.  A call's timer is "armed", "cleared" or "fired";   *)
(* settles[id] lists the resolve/reject calls made on the call's promise.  *)

Waiting(cache, tm, st) == [cache |-> cache, timers |-> tm, settles |-> st]

\* makeRPCCall: arm the timer, store the entry, start the publish
MakeRPCCall(g, id) ==
    Waiting(g.cache \cup {id}, [g.timers EXCEPT ![id] = "armed"], g.settles)

\* clearTimeout leaves a timer that has fired as it is
ClearTimeout(tm, id) == IF tm[id] = "armed" THEN [tm EXCEPT ![id] = "cleared"] ELSE tm

OnPublishFailedKeepsEntry(g, id) ==
    Waiting(g.cache, ClearTimeout(g.timers, id),
            [g.settles EXCEPT ![id] = Append(@, "PublishError")])

\* the catch callback of the publish: clear the timer, delete the entry,
\* reject
OnPublishFailed(g, id) ==
    Waiting(g.cache \ {id}, ClearTimeout(g.timers, id),
            [g.settles EXCEPT ![id] = Append(@, "PublishError")])

OnTimeoutKeepsEntry(g, id) ==
    Waiting(g.cache, [g.timers EXCEPT ![id] = "fired"],
            [g.settles EXCEPT ![id] = Append(@, "TimeoutError")])

\* the setTimeout callback of makeRPCCall
OnTimeout(g, id) ==
    Waiting(g.cache \ {id}, [g.timers EXCEPT ![id] = "fired"],
            [g.settles EXCEPT ![id] = Append(@, "TimeoutError")])

Reply(correlationId, error) == [correlationId |-> correlationId, error |-> error]

OnResponseKeepsTimer(g, reply) ==
    IF reply.correlationId # NoId /\ reply.correlationId \in g.cache
    THEN Waiting(g.cache \ {reply.correlationId}, g.timers,
                 [g.settles EXCEPT ![reply.correlationId] =
                     Append(@, IF reply.error THEN "ResponderError" ELSE "data")])
    ELSE g

\* the handler of the response queues, up to context.ack()
OnResponse(g, reply) ==
    IF reply.correlationId # NoId /\ reply.correlationId \in g.cache
    THEN Waiting(g.cache \ {reply.correlationId},
                 ClearTimeout(g.timers, reply.correlationId),
                 [g.settles EXCEPT ![reply.correlationId] =
                     Append(@, IF reply.error THEN "ResponderError" ELSE "data")])
    ELSE g

GwStep(op, id, error, acked) ==
    [ op |-> op, id |-> id, error |-> error, acked |-> acked,
      cacheBefore |-> requestCache, settlesBefore |-> settles,
      timerBefore |-> IF id \in CallIds THEN timers[id] ELSE "none" ]

\* a request handler of the gateway calls makeRPCCall
GwCall(id) ==
    /\ timers[id] = "none"
    /\ \A j \in CallIds : j < id => timers[j] # "none"
    /\ \E g \in { MakeRPCCall(Waiting(requestCache, timers, settles), id) } :
          /\ requestCache' = g.cache
          /\ timers' = g.timers
          /\ settles' = g.settles
    /\ publishing' = publishing \cup {id}
    /\ lastGw' = GwStep("call", id, FALSE, FALSE)
    /\ UNCHANGED <<responses, replied, answered>>
    /\ UNCHANGED <<dispatchVars, sagaVars, breakerVars, rpcVars, connVars>>

\* the publish() promise of a call settles
GwPublished(id, ok) ==
    /\ id \in publishing
    /\ \E g \in { IF ok THEN Waiting(requestCache, timers, settles)
                  ELSE OnPublishFailed(Waiting(requestCache, timers, settles), id) } :
          /\ requestCache' = g.cache
          /\ timers' = g.timers
          /\ settles' = g.settles
    /\ publishing' = publishing \ {id}
    /\ lastGw' = GwStep("published", id, ~ok, FALSE)
    /\ UNCHANGED <<responses, replied, answered>>
    /\ UNCHANGED <<dispatchVars, sagaVars, breakerVars, rpcVars, connVars>>

\* a responder sends a reply (possibly a second one) for a request it has
\* received, or a reply without a usable correlation id
GwRespond(id, error) ==
    /\ replied < MaxReplies
    /\ id # NoId => /\ timers[id] # "none"
                    /\ id \notin publishing
                    /\ \A i \in 1..Len(settles[id]) : settles[id][i] # "PublishError"
    /\ responses' = Append(responses, Reply(id, error))
    /\ replied' = replied + 1
    /\ lastGw' = GwStep("respond", id, error, FALSE)
    /\ UNCHANGED <<requestCache, timers, settles, publishing, answered>>
    /\ UNCHANGED <<dispatchVars, sagaVars, breakerVars, rpcVars, connVars>>

\* the timeout of a call fires
GwTimeout(id) ==
    /\ timers[id] = "armed"
    /\ \E g \in { OnTimeout(Waiting(requestCache, timers, settles), id) } :
          /\ requestCache' = g.cache
          /\ timers' = g.timers
          /\ settles' = g.settles
    /\ lastGw' = GwStep("timeout", id, TRUE, FALSE)
    /\ UNCHANGED <<responses, replied, publishing, answered>>
    /\ UNCHANGED <<dispatchVars, sagaVars, breakerVars, rpcVars, connVars>>

\* the response consumer handles the next reply and acknowledges it
GwConsume ==
    /\ responses # <<>>
    /\ \E g \in { OnResponse(Waiting(requestCache, timers, settles), Head(responses)) } :
          /\ requestCache' = g.cache
          /\ timers' = g.timers
          /\ settles' = g.settles
    /\ responses' = Tail(responses)
    /\ lastGw' = GwStep("response", Head(responses).correlationId,
                        Head(responses).error, TRUE)
    /\ UNCHANGED <<replied, publishing, answered>>
    /\ UNCHANGED <<dispatchVars, sagaVars, breakerVars, rpcVars, connVars>>

\* the replyTo of a request of the rabbitmq-intermediate gateway
ReplyTo(id) == <<"rpc-response", ToString(id)>>

\* the queues the rabbitmq-intermediate gateway consumes replies from
GatewayResponseQueues ==
    { <<"order-responses">>, <<"payment-responses">>,
      <<"inventory-responses">>, <<"shipping-responses">> }

\* the order service handles a request before its deadline and publishes
\* the answer to the default exchange with the request's replyTo as key
OrderServiceReplies(id, error) ==
    /\ timers[id] = "armed"
    /\ id \notin publishing
    /\ id \notin answered
    /\ answered' = answered \cup {id}
    /\ responses' = IF Route(DefaultExchange, ReplyTo(id)) \cap GatewayResponseQueues # {}
                    THEN Append(responses, Reply(id, error))
                    ELSE responses
    /\ lastGw' = GwStep("answer", id, error, FALSE)
    /\ UNCHANGED <<requestCache, timers, settles, publishing, replied>>
    /\ UNCHANGED <<dispatchVars, sagaVars, breakerVars, rpcVars, connVars>>

GatewayNext ==
    \/ \E id \in CallIds, error \in BOOLEAN : OrderServiceReplies(id, error)
    \/ \E id \in CallIds : GwCall(id)
    \/ \E id \in CallIds, ok \in BOOLEAN : GwPublished(id, ok)
    \/ \E id \in CallIds \cup {NoId}, error \in BOOLEAN : GwRespond(id, error)
    \/ \E id \in CallIds : GwTimeout(id)
    \/ GwConsume

GatewaySpec == Init /\ [][GatewayNext]_vars

----------------------------------------------------------------------------
(* RabbitMQConnection.rpc(): an exclusive reply queue and a consumer on it *)
(* per call.  rpcCalls[id] is the state of the returned promise.           *)

\* a promise keeps its first settlement
SettlePromise(p, outcome) == IF p = "pending" THEN outcome ELSE p

\* the consumer callback of rpc() on a message of its reply queue
RpcOnMessage(call, timer, matches, parses) ==
    IF ~matches THEN [call |-> call, timer |-> timer, acked |-> FALSE]
    ELSE [ call |-> SettlePromise(call, IF parses THEN "resolved" ELSE "rejected"),
           timer |-> IF timer = "armed" THEN "cleared" ELSE timer,
           acked |-> parses ]

\* rpc(): assert the reply queue, arm the timer, consume, publish
RpcCall(id) ==
    /\ rpcCalls[id] = "none"
    /\ \A j \in RpcIds : j < id => rpcCalls[j] # "none"
    /\ rpcCalls' = [rpcCalls EXCEPT ![id] = "pending"]
    /\ rpcTimers' = [rpcTimers EXCEPT ![id] = "armed"]
    /\ rpcConsumers' = rpcConsumers \cup {id}
    /\ lastRpc' = [op |-> "call", id |-> id, matched |-> FALSE, acked |-> FALSE]
    /\ UNCHANGED rpcReplies
    /\ UNCHANGED <<dispatchVars, sagaVars, breakerVars, gatewayVars, connVars>>

\* the setTimeout callback of rpc(): reject, nothing else
RpcTimeout(id) ==
    /\ rpcTimers[id] = "armed"
    /\ rpcTimers' = [rpcTimers EXCEPT ![id] = "fired"]
    /\ rpcCalls' = [rpcCalls EXCEPT ![id] = SettlePromise(@, "rejected")]
    /\ lastRpc' = [op |-> "timeout", id |-> id, matched |-> FALSE, acked |-> FALSE]
    /\ UNCHANGED <<rpcConsumers, rpcReplies>>
    /\ UNCHANGED <<dispatchVars, sagaVars, breakerVars, gatewayVars, connVars>>

\* a message reaches the consumer of a call's reply queue
RpcReply(id, matches, parses) ==
    /\ id \in rpcConsumers
    /\ rpcReplies[id] < MaxReplies
    /\ \E r \in { RpcOnMessage(rpcCalls[id], rpcTimers[id], matches, parses) } :
          /\ rpcCalls' = [rpcCalls EXCEPT ![id] = r.call]
          /\ rpcTimers' = [rpcTimers EXCEPT ![id] = r.timer]
          /\ lastRpc' = [op |-> "reply", id |-> id, matched |-> matches, acked |-> r.acked]
    /\ rpcReplies' = [rpcReplies EXCEPT ![id] = @ + 1]
    /\ UNCHANGED rpcConsumers
    /\ UNCHANGED <<dispatchVars, sagaVars, breakerVars, gatewayVars, connVars>>

RpcNext ==
    \/ \E id \in RpcIds : RpcCall(id)
    \/ \E id \in RpcIds : RpcTimeout(id)
    \/ \E id \in RpcIds, matches \in BOOLEAN, parses \in BOOLEAN : RpcReply(id, matches, parses)

RpcSpec == Init /\ [][RpcNext]_vars

----------------------------------------------------------------------------
(* RabbitMQConnection: connect(), consume(), the connection and channel    *)
(* event handlers and reconnect().  Every await is a step boundary; code   *)
(* between two awaits runs to completion.  A channel carries the number of *)
(* its connection (connect() creates one channel per connection).          *)

ReconnectTasks == 1..MaxTasks

ServiceTask == 0

SagaQueue == <<"order", "saga">>

\* the consumers the order service registers at start-up, in order
ServicePlan ==
    << [queue |-> <<"order", "commands">>, handler |-> "orderCommandHandler", prefetch |-> 5],
       [queue |-> SagaQueue, handler |-> "sagaEventHandler", prefetch |-> 1] >>

\* the fields of the connection object, the broker's subscriptions and the
\* pending invocations as one value
ConnState ==
    [ connection |-> connection, channel |-> channel, isConnecting |-> isConnecting,
      reconnectAttempts |-> reconnectAttempts, registered |-> registered,
      chPrefetch |-> chPrefetch, subs |-> subs, tasks |-> tasks,
      emitted |-> emitted ]

SetConn(c) ==
    /\ connection' = c.connection
    /\ channel' = c.channel
    /\ isConnecting' = c.isConnecting
    /\ reconnectAttempts' = c.reconnectAttempts
    /\ registered' = c.registered
    /\ chPrefetch' = c.chPrefetch
    /\ subs' = c.subs
    /\ tasks' = c.tasks
    /\ emitted' = c.emitted

ReconnectAllowedPastLimit(connecting, attempts) ==
    ~(connecting \/ attempts > MaxReconnectAttempts)

\* the guard at the top of reconnect()
ReconnectAllowed(connecting, attempts) ==
    ~(connecting \/ attempts >= MaxReconnectAttempts)

\* reconnect() up to its await sleep(), run by invocation t
Reconnect(c, t) ==
    IF ReconnectAllowed(c.isConnecting, c.reconnectAttempts)
    THEN [c EXCEPT !.reconnectAttempts = @ + 1, !.tasks[t] = Task("sleep", <<>>, 0)]
    ELSE [c EXCEPT !.tasks[t] = Idle]

IdleTasks(c) == { t \in ReconnectTasks : c.tasks[t].pc = "idle" }

\* a handler calls reconnect(): a new invocation when the guard lets it in
StartReconnect(c) ==
    IF ReconnectAllowed(c.isConnecting, c.reconnectAttempts)
    THEN Reconnect(c, CHOOSE t \in IdleTasks(c) : \A u \in IdleTasks(c) : t <= u)
    ELSE c

\* an exception reaches the caller of connect() or consume(): the catch
\* block of reconnect() calls reconnect() again, the service's start-up fails
CatchFailure(c, t) ==
    IF t = ServiceTask
    THEN [c EXCEPT !.tasks[t] = Task("failed", <<>>, 0)]
    ELSE Reconnect(c, t)

\* the catch block of connect()
ConnectThrows(c, t) == CatchFailure([c EXCEPT !.isConnecting = FALSE], t)

\* the next consume() of invocation t: it throws at once without a channel,
\* otherwise it awaits the broker; with nothing left the invocation is done
IssueConsume(c, t, todo) ==
    IF todo = <<>>
    THEN [c EXCEPT !.tasks[t] = IF t = ServiceTask THEN Task("running", <<>>, 0) ELSE Idle]
    ELSE IF c.channel = 0
         THEN CatchFailure(c, t)
         ELSE [c EXCEPT !.tasks[t] = Task("consume", todo, c.channel)]

\* consumers.set(queue, handler): a Map keeps the position of a key it has
MapSet(reg, q, h) ==
    IF \E i \in 1..Len(reg) : reg[i].queue = q
    THEN [i \in 1..Len(reg) |-> IF reg[i].queue = q THEN [queue |-> q, handler |-> h] ELSE reg[i]]
    ELSE Append(reg, [queue |-> q, handler |-> h])

Subscription(q, h, ch, p, t) ==
    [queue |-> q, handler |-> h, channel |-> ch, prefetch |-> p, unacked |-> 0, by |-> t]

\* consume(queue, handler, options) once the broker has answered; p = 0 is
\* a call without a prefetch option
ConsumeOk(c, q, h, p, t) ==
    LET pf == IF p # 0 THEN p ELSE c.chPrefetch
    IN [c EXCEPT !.chPrefetch = pf,
                 !.subs = @ \cup {Subscription(q, h, c.channel, pf, t)},
                 !.registered = MapSet(@, q, h)]

RestoreForgets(c) == <<>>

\* for (const [queue, handler] of this.consumers) await this.consume(queue, handler)
Restore(c) == [i \in 1..Len(c.registered) |->
                  [queue |-> c.registered[i].queue, handler |-> c.registered[i].handler,
                   prefetch |-> 0]]

\* what follows a connect() that returned: the service registers its
\* consumers, reconnect() restores the registered ones
AfterConnect(c, t) ==
    IssueConsume(c, t, IF t = ServiceTask THEN ServicePlan ELSE Restore(c))

\* restored: the try block of a reconnect() invocation has just completed
ConnStep(op, t, restored) == [op |-> op, task |-> t, restored |-> restored]

\* the owning service calls connect() at start-up
ServiceStart ==
    /\ tasks[ServiceTask].pc = "idle"
    /\ ~isConnecting
    /\ isConnecting' = TRUE
    /\ tasks' = [tasks EXCEPT ![ServiceTask] = Task("dial", <<>>, 0)]
    /\ lastConn' = ConnStep("start", ServiceTask, FALSE)
    /\ UNCHANGED <<connection, channel, reconnectAttempts, registered, chPrefetch,
                   subs, emitted, dials, drops, open>>
    /\ UNCHANGED <<dispatchVars, sagaVars, breakerVars, gatewayVars, rpcVars>>

\* reconnect() after its sleep: connect() returns at once when another
\* connect() is in progress, otherwise it starts dialling
Wake(t) ==
    /\ tasks[t].pc = "sleep"
    /\ \E c \in { IF isConnecting
                  THEN AfterConnect(ConnState, t)
                  ELSE [ConnState EXCEPT !.isConnecting = TRUE,
                                         !.tasks[t] = Task("dial", <<>>, 0)] } :
          /\ SetConn(c)
          /\ lastConn' = ConnStep(IF isConnecting THEN "skipped" ELSE "dial", t,
                                  isConnecting /\ Restore(ConnState) = <<>>)
    /\ UNCHANGED <<dials, drops, open>>
    /\ UNCHANGED <<dispatchVars, sagaVars, breakerVars, gatewayVars, rpcVars>>

\* amqp.connect settles
Dial(t, ok) ==
    /\ tasks[t].pc = "dial"
    /\ dials < MaxDials
    /\ dials' = dials + 1
    /\ \E c \in { IF ok
                  THEN [ConnState EXCEPT !.connection = dials + 1,
                                         !.tasks[t] = Task("channel", <<>>, 0)]
                  ELSE ConnectThrows(ConnState, t) } :
          /\ SetConn(c)
          /\ lastConn' = ConnStep(IF ok THEN "dialled" ELSE "failed", t, FALSE)
    /\ open' = IF ok THEN open \cup {dials + 1} ELSE open
    /\ UNCHANGED drops
    /\ UNCHANGED <<dispatchVars, sagaVars, breakerVars, gatewayVars, rpcVars>>

\* createChannel settles; channel.prefetch(config.prefetch) is sent
CreateChannel(t) ==
    /\ tasks[t].pc = "channel"
    /\ \E c \in { IF connection # 0
                  THEN [ConnState EXCEPT !.channel = connection,
                                         !.chPrefetch = PrefetchDefault,
                                         !.tasks[t] = Task("setup", <<>>, 0)]
                  ELSE ConnectThrows(ConnState, t) } :
          /\ SetConn(c)
          /\ lastConn' = ConnStep(IF connection # 0 THEN "channel" ELSE "failed", t, FALSE)
    /\ UNCHANGED <<dials, drops, open>>
    /\ UNCHANGED <<dispatchVars, sagaVars, breakerVars, gatewayVars, rpcVars>>

\* prefetch and setupInfrastructure settle: connect() resets the attempts,
\* emits 'connected' and returns
Connected(t) ==
    /\ tasks[t].pc = "setup"
    /\ \E c \in { IF connection # 0 /\ channel # 0
                  THEN AfterConnect([ConnState EXCEPT !.reconnectAttempts = 0,
                                                      !.isConnecting = FALSE,
                                                      !.emitted = @ \cup {"connected"}], t)
                  ELSE ConnectThrows(ConnState, t) } :
          /\ SetConn(c)
          /\ lastConn' = ConnStep(IF connection # 0 /\ channel # 0
                                  THEN "connected" ELSE "failed", t,
                                  /\ connection # 0 /\ channel # 0
                                  /\ t # ServiceTask
                                  /\ Restore(ConnState) = <<>>)
    /\ UNCHANGED <<dials, drops, open>>
    /\ UNCHANGED <<dispatchVars, sagaVars, breakerVars, gatewayVars, rpcVars>>

\* the pending consume() of invocation t settles: rejected when its channel
\* has gone, otherwise the subscription exists and the next consume() starts
Consumed(t) ==
    /\ tasks[t].pc = "consume"
    /\ \E e \in { Head(tasks[t].todo) } :
       \E c \in { IF channel = tasks[t].on
                  THEN IssueConsume(ConsumeOk(ConnState, e.queue, e.handler, e.prefetch, t),
                                    t, Tail(tasks[t].todo))
                  ELSE CatchFailure(ConnState, t) } :
          /\ SetConn(c)
          /\ lastConn' = ConnStep(IF channel = tasks[t].on THEN "consumed" ELSE "failed", t,
                                  /\ channel = tasks[t].on
                                  /\ t # ServiceTask
                                  /\ Tail(tasks[t].todo) = <<>>)
    /\ UNCHANGED <<dials, drops, open>>
    /\ UNCHANGED <<dispatchVars, sagaVars, breakerVars, gatewayVars, rpcVars>>

\* handleConnectionError: emit('error') throws without a listener,
\* otherwise reconnect() is called
HandleConnectionError(c, listened) ==
    IF listened THEN StartReconnect([c EXCEPT !.emitted = @ \cup {"error"}]) ELSE c

\* handleConnectionClose; the broker drops the subscriptions of the connection
HandleConnectionClose(c) ==
    StartReconnect([c EXCEPT !.connection = 0, !.channel = 0,
                             !.emitted = @ \cup {"disconnected"},
                             !.subs = { s \in @ : s.channel # c.connection }])

\* the invocations the handlers of one failure start
Needed(c, withError, listened) ==
    LET first == IF withError /\ listened
                    /\ ReconnectAllowed(c.isConnecting, c.reconnectAttempts)
                 THEN 1 ELSE 0
    IN first + (IF ReconnectAllowed(c.isConnecting, c.reconnectAttempts + first)
                THEN 1 ELSE 0)

\* the open connection fails or is closed by the broker: 'error' (on a
\* failure) and then 'close' are emitted and their handlers run
ConnectionLost(withError, listened) ==
    /\ connection # 0
    /\ drops < MaxDrops
    /\ Cardinality(IdleTasks(ConnState)) >= Needed(ConnState, withError, listened)
    /\ drops' = drops + 1
    /\ \E c \in { HandleConnectionClose(
                    IF withError THEN HandleConnectionError(ConnState, listened)
                    ELSE ConnState) } :
          /\ SetConn(c)
          /\ lastConn' = ConnStep("closed", ServiceTask, FALSE)
    /\ open' = open \ {connection}
    /\ UNCHANGED dials
    /\ UNCHANGED <<dispatchVars, sagaVars, breakerVars, gatewayVars, rpcVars>>

\* handleChannelError only emits; handleChannelClose sets channel to null
HandleChannelClose(c) ==
    [c EXCEPT !.channel = 0, !.subs = { s \in @ : s.channel # c.channel }]

\* the channel is closed while its connection stays open
ChannelLost(withError, listened) ==
    /\ channel # 0
    /\ drops < MaxDrops
    /\ drops' = drops + 1
    /\ \E c \in { HandleChannelClose(
                    IF withError /\ listened
                    THEN [ConnState EXCEPT !.emitted = @ \cup {"error"}]
                    ELSE ConnState) } :
          SetConn(c)
    /\ lastConn' = ConnStep("channelClosed", ServiceTask, FALSE)
    /\ UNCHANGED <<dials, open>>
    /\ UNCHANGED <<dispatchVars, sagaVars, breakerVars, gatewayVars, rpcVars>>

\* the broker delivers a message to a subscription that has room under
\* its prefetch count
BrokerDeliver(s) ==
    /\ s \in subs
    /\ s.unacked < s.prefetch
    /\ s.unacked < MaxUnacked
    /\ subs' = (subs \ {s}) \cup {[s EXCEPT !.unacked = @ + 1]}
    /\ lastConn' = ConnStep("delivered", s.by, FALSE)
    /\ UNCHANGED <<connection, channel, isConnecting, reconnectAttempts, registered,
                   chPrefetch, tasks, emitted, dials, drops, open>>
    /\ UNCHANGED <<dispatchVars, sagaVars, breakerVars, gatewayVars, rpcVars>>

\* a handler settles one of its deliveries
HandlerSettles(s) ==
    /\ s \in subs
    /\ s.unacked > 0
    /\ subs' = (subs \ {s}) \cup {[s EXCEPT !.unacked = @ - 1]}
    /\ lastConn' = ConnStep("settled", s.by, FALSE)
    /\ UNCHANGED <<connection, channel, isConnecting, reconnectAttempts, registered,
                   chPrefetch, tasks, emitted, dials, drops, open>>
    /\ UNCHANGED <<dispatchVars, sagaVars, breakerVars, gatewayVars, rpcVars>>

\* disconnect() once the channel is out of the way: it closes the
\* connection when there is one, otherwise it emits 'disconnected' and returns
CloseConnection(c) ==
    IF c.connection # 0
    THEN [c EXCEPT !.tasks[ServiceTask] = Task("closeConnection", <<>>, c.connection)]
    ELSE [c EXCEPT !.tasks[ServiceTask] = Task("stopped", <<>>, 0),
                   !.emitted = @ \cup {"disconnected"}]

\* the owning service calls disconnect() at shutdown: up to its first await
DisconnectBegins ==
    /\ tasks[ServiceTask].pc = "running"
    /\ \E c \in { IF channel # 0
                  THEN [ConnState EXCEPT !.tasks[ServiceTask] =
                                            Task("closeChannel", <<>>, channel)]
                  ELSE CloseConnection(ConnState) } :
          SetConn(c)
    /\ lastConn' = ConnStep("disconnect", ServiceTask, FALSE)
    /\ UNCHANGED <<dials, drops, open>>
    /\ UNCHANGED <<dispatchVars, sagaVars, breakerVars, gatewayVars, rpcVars>>

\* await channel.close() settles.  The closed channel emits 'close', so
\* handleChannelClose runs, then disconnect() sets the field to null.  When
\* the channel went away in the meantime the call may also be rejected, and
\* the catch block of disconnect() ends it
ChannelClosed(ok) ==
    /\ tasks[ServiceTask].pc = "closeChannel"
    /\ channel = tasks[ServiceTask].on => ok
    /\ \E c \in { IF ok
                  THEN CloseConnection(
                         [ConnState EXCEPT !.channel = 0,
                                           !.subs = { s \in @ : s.channel # tasks[ServiceTask].on }])
                  ELSE [ConnState EXCEPT !.tasks[ServiceTask] = Task("stopped", <<>>, 0)] } :
          SetConn(c)
    /\ lastConn' = ConnStep(IF ok THEN "channelClosed" ELSE "failed", ServiceTask, FALSE)
    /\ UNCHANGED <<dials, drops, open>>
    /\ UNCHANGED <<dispatchVars, sagaVars, breakerVars, gatewayVars, rpcVars>>

\* await connection.close() settles.  The closed connection emits 'close',
\* so handleConnectionClose runs and calls reconnect(); then disconnect()
\* sets the field to null and emits 'disconnected'.  On a connection that is
\* no longer open the call is rejected
ConnectionClosed ==
    /\ tasks[ServiceTask].pc = "closeConnection"
    /\ Cardinality(IdleTasks(ConnState)) >= Needed(ConnState, FALSE, FALSE)
    /\ \E id \in { tasks[ServiceTask].on } :
       \E c \in { IF id \in open
                  THEN [HandleConnectionClose([ConnState EXCEPT !.connection = id])
                          EXCEPT !.tasks[ServiceTask] = Task("stopped", <<>>, 0)]
                  ELSE [ConnState EXCEPT !.tasks[ServiceTask] = Task("stopped", <<>>, 0)] } :
          /\ SetConn(c)
          /\ open' = open \ {id}
          /\ lastConn' = ConnStep(IF id \in open THEN "disconnected" ELSE "failed",
                                  ServiceTask, FALSE)
    /\ UNCHANGED <<dials, drops>>
    /\ UNCHANGED <<dispatchVars, sagaVars, breakerVars, gatewayVars, rpcVars>>

\* RabbitMQConnection.isConnected()
IsConnected == connection # 0 /\ channel # 0

ConnNext ==
    \/ ServiceStart
    \/ \E t \in ReconnectTasks : Wake(t)
    \/ \E t \in TaskIds, ok \in BOOLEAN : Dial(t, ok)
    \/ \E t \in TaskIds : CreateChannel(t)
    \/ \E t \in TaskIds : Connected(t)
    \/ \E t \in TaskIds : Consumed(t)
    \/ \E withError \in BOOLEAN, listened \in BOOLEAN : ConnectionLost(withError, listened)
    \/ \E withError \in BOOLEAN, listened \in BOOLEAN : ChannelLost(withError, listened)
    \/ \E s \in subs : BrokerDeliver(s)
    \/ \E s \in subs : HandlerSettles(s)

ConnSpec == Init /\ [][ConnNext]_vars

\* the life of the connection from start-up to shutdown; what the broker
\* delivers in between has no part in it
ShutdownNext ==
    \/ ServiceStart
    \/ \E t \in ReconnectTasks : Wake(t)
    \/ \E t \in TaskIds, ok \in BOOLEAN : Dial(t, ok)
    \/ \E t \in TaskIds : CreateChannel(t)
    \/ \E t \in TaskIds : Connected(t)
    \/ \E t \in TaskIds : Consumed(t)
    \/ \E withError \in BOOLEAN, listened \in BOOLEAN : ConnectionLost(withError, listened)
    \/ \E withError \in BOOLEAN, listened \in BOOLEAN : ChannelLost(withError, listened)
    \/ DisconnectBegins
    \/ \E ok \in BOOLEAN : ChannelClosed(ok)
    \/ ConnectionClosed

ShutdownSpec == Init /\ [][ShutdownNext]_vars

----------------------------------------------------------------------------
(* Properties of the consumer dispatch and of the retry logic              *)

Range(f) == { f[i] : i \in DOMAIN f }

IsPrefix(a, b) == Len(a) <= Len(b) /\ \A i \in 1..Len(a) : a[i] = b[i]

Delivered == last.kind # "none"

\* the business handler ran on the last delivery and threw
HandlerFailed == Delivered /\ "throw" \in Range(last.calls)

\* the registered handler threw on the last delivery without having issued
\* a terminal action
HandlerThrewUnsettled == Delivered /\ last.hthrew # NoError /\ last.hacts = <<>>

\* C1: every delivery handed to a handler by consume() gets exactly one
\* terminal broker action, never zero and never two.
C1_ExactlyOneTerminalAction == Delivered => Len(last.acts) = 1

\* a copy of logical message m is still held by the delayed exchange, waits
\* on a consumed queue or is an unsettled delivery
Pending(m) ==
    \/ \E i \in 1..Len(delayed) : delayed[i].id = m
    \/ \E q \in DOMAIN consumers : \E i \in 1..Len(queues[q]) : queues[q][i].id = m
    \/ \E d \in unacked : d.msg.id = m

ThrowTwiceThenSucceed == <<"throw", "throw", "ok">>

\* C2: a message published with retryCount 0 whose handler throws twice and
\* then succeeds is, once nothing of it is pending any more, delivered three
\* times, with retry copies delayed 1000 and 2000, acknowledged at the end
\* and never dead-lettered.
C2_ThirdAttemptSucceeds ==
    \A m \in Ids :
        ( /\ trace[m].rc0 = 0
          /\ trace[m].calls # <<>>
          /\ IsPrefix(trace[m].calls, ThrowTwiceThenSucceed)
          /\ ~Pending(m) )
        => /\ trace[m].calls = ThrowTwiceThenSucceed
           /\ trace[m].copies = << [rc |-> 1, delay |-> 1000], [rc |-> 2, delay |-> 2000] >>
           /\ trace[m].settled[Len(trace[m].settled)] = "ack"
           /\ trace[m].dlq = 0

ExpectedDelay(n) ==
    CASE n = 0 -> 1000
      [] n = 1 -> 2000
      [] n = 2 -> 4000
      [] OTHER -> 0

\* C4: a failed handler on a delivery with attempt counter n < maxRetries
\* makes the retry logic publish exactly one copy of the same payload with
\* counter n + 1 and delay baseDelay * 2^n, and the delivery is acknowledged,
\* neither nacked nor requeued.
C4_RetryCopyAndAck ==
    (HandlerFailed /\ last.msg.rc < MaxRetriesDefault)
    => /\ Len(last.pubs) = 1
       /\ last.pubs[1].msg.id = last.msg.id
       /\ last.pubs[1].msg.key = last.msg.key
       /\ last.pubs[1].msg.rc = last.msg.rc + 1
       /\ last.pubs[1].msg.delay = ExpectedDelay(last.msg.rc)
       /\ last.acts # <<>>
       /\ Range(last.acts) = {"ack"}

C4_Witness ==
    /\ HandlerFailed
    /\ last.msg.rc = 2
    /\ Len(last.pubs) = 1
    /\ last.pubs[1].msg.delay = 4000
    /\ last.acts[1] = "ack"

\* C5: a failed handler on a delivery with attempt counter >= maxRetries
\* gets the delivery nacked without requeue, publishes no retry copy and is
\* reported upward as a retries-exhausted error, on both retry paths.
C5_ExhaustedIsReported ==
    (HandlerFailed /\ last.msg.rc >= MaxRetriesDefault)
    => /\ last.acts # <<>>
       /\ last.acts[1] = "nack"
       /\ last.pubs = <<>>
       /\ last.error = "RetryExhaustedError"

\* C6: a delivery whose retries are exhausted and that is nacked without
\* requeue on a queue consumed with retry handling is routed to a
\* dead-letter queue instead of being dropped.
C6_ExhaustedReachesDeadLetterQueue ==
    ( /\ HandlerFailed
      /\ last.msg.rc >= MaxRetriesDefault
      /\ last.acts # <<>>
      /\ last.acts[1] = "nack" )
    => last.dlq \cap DeadLetterQueues # {}

\* C7: a message on a dead-letter queue stays there (no consumer, TTL or
\* dead-letter setting takes it off), and a logical message that has been
\* dead-lettered is not handed to a handler again.
C7_DeadLetterTerminal ==
    [][ /\ \A q \in DeadLetterQueues : IsPrefix(queues[q], queues'[q])
        /\ \A m \in Ids : trace[m].dlq > 0 =>
              /\ trace'[m].calls = trace[m].calls
              /\ trace'[m].settled = trace[m].settled ]_vars

C7_Witness ==
    /\ \E q \in DeadLetterQueues : queues[q] # <<>>
    /\ \E m \in Ids : trace[m].dlq > 0 /\ trace[m].calls # <<>>

----------------------------------------------------------------------------
(* Properties of the saga orchestrator                                     *)

\* the events published before the most recent orchestrator call
EventsBefore == SubSeq(events, 1, Len(events) - Len(lastCall.published))

\* the step the orchestrator last asked for in saga id: the step named by
\* its latest start/continue event, i.e. the head of the steps still to run
RequestedStep(id, evs) ==
    LET idx == { i \in 1..Len(evs) :
                    /\ evs[i].sagaId = id
                    /\ evs[i].routingKey \in {"saga.start", "saga.continue"} }
    IN IF idx = {} THEN ""
       ELSE evs[CHOOSE i \in idx : \A j \in idx : j <= i].step

WasActive == lastCall.sagaId \in DOMAIN lastCall.before

\* C9: handleStepComplete for an active saga with a step that is not the
\* current head of the remaining steps is ignored: nothing is published and
\* the saga state is unchanged.
C9_OutOfOrderCompletionIgnored ==
    ( /\ lastCall.op = "handleStepComplete"
      /\ WasActive
      /\ lastCall.step # RequestedStep(lastCall.sagaId, EventsBefore) )
    => /\ lastCall.published = <<>>
       /\ activeSteps = lastCall.before

\* the saga.compensate events of the most recent call, in publish order
Compensations == SelectSeq(lastCall.published, LAMBDA e : e.routingKey = "saga.compensate")

\* C10: handleStepFailed on an active saga publishes one saga.compensate
\* event per step strictly before the failed step, for no other step, in
\* exact reverse of the original order.
C10_CompensationsInReverseOrder ==
    ( /\ lastCall.op = "handleStepFailed"
      /\ WasActive
      /\ lastCall.step \in Range(lastCall.before[lastCall.sagaId]) )
    => LET steps == lastCall.before[lastCall.sagaId]
           k == CHOOSE i \in 1..Len(steps) : steps[i] = lastCall.step
       IN /\ Len(Compensations) = k - 1
          /\ \A i \in 1..(k - 1) :
                /\ Compensations[i].step = steps[k - i]
                /\ Compensations[i].sagaId = lastCall.sagaId

C10_Witness ==
    /\ lastCall.op = "handleStepFailed"
    /\ WasActive
    /\ Len(lastCall.before[lastCall.sagaId]) = 3
    /\ lastCall.step = lastCall.before[lastCall.sagaId][3]
    /\ Len(Compensations) = 2
    /\ Compensations[1].step = lastCall.before[lastCall.sagaId][2]
    /\ Compensations[2].step = lastCall.before[lastCall.sagaId][1]

SagaNotice == lastCall.op \in {"handleStepComplete", "handleStepFailed"}

\* the routing key of the latest event published for saga id ("" if none)
LastKey(id, evs) ==
    LET idx == { i \in 1..Len(evs) : evs[i].sagaId = id }
    IN IF idx = {} THEN ""
       ELSE evs[CHOOSE i \in idx : \A j \in idx : j <= i].routingKey

C12_HeadStepAdvances ==
    ( /\ lastCall.op = "handleStepComplete"
      /\ WasActive
      /\ lastCall.step = RequestedStep(lastCall.sagaId, EventsBefore) )
    => LET steps == lastCall.before[lastCall.sagaId]
           k == CHOOSE i \in 1..Len(steps) : steps[i] = lastCall.step
           p == lastCall.published
       IN /\ lastCall.step \in Range(steps)
          /\ Len(p) = 1
          /\ p[1].sagaId = lastCall.sagaId
          /\ p[1].payload \in Results
          /\ IF k = Len(steps)
             THEN /\ p[1].routingKey = "saga.completed"
                  /\ GetSagaStatus(lastCall.sagaId) = Null
             ELSE /\ p[1].routingKey = "saga.continue"
                  /\ p[1].step = steps[k + 1]
                  /\ p[1].remainingSteps = SubSeq(steps, k + 2, Len(steps))
                  /\ activeSteps = lastCall.before
                  /\ GetSagaStatus(lastCall.sagaId) = [steps |-> steps, active |-> TRUE]

C12_Witness ==
    /\ lastCall.op = "handleStepComplete"
    /\ WasActive
    /\ lastCall.step = RequestedStep(lastCall.sagaId, EventsBefore)
    /\ Len(lastCall.before[lastCall.sagaId]) = 3
    /\ lastCall.step = lastCall.before[lastCall.sagaId][1]
    /\ Len(lastCall.published) = 1
    /\ Len(lastCall.published[1].remainingSteps) = 1

\* the events published for saga id since its latest saga.start
SinceStart(id, evs) ==
    LET idx == { i \in 1..Len(evs) :
                    evs[i].sagaId = id /\ evs[i].routingKey = "saga.start" }
    IN IF idx = {} THEN <<>>
       ELSE SubSeq(evs, CHOOSE i \in idx : \A j \in idx : j <= i, Len(evs))

\* a completion of step s of saga id has been accepted before the most
\* recent call: the saga.continue for the step after s has been published
AcceptedBefore(id, s) ==
    LET steps == lastCall.before[id]
        evs == SinceStart(id, EventsBefore)
    IN \E k \in 1..(Len(steps) - 1) :
          /\ steps[k] = s
          /\ \E i \in 1..Len(evs) :
                /\ evs[i].sagaId = id
                /\ evs[i].routingKey = "saga.continue"
                /\ evs[i].step = steps[k + 1]

\* C13: a second handleStepComplete for a step of a still-active saga whose
\* completion has already been accepted publishes no further event and
\* changes no saga state.
C13_DuplicateCompletionIgnored ==
    ( /\ lastCall.op = "handleStepComplete"
      /\ WasActive
      /\ AcceptedBefore(lastCall.sagaId, lastCall.step) )
    => /\ lastCall.published = <<>>
       /\ activeSteps = lastCall.before

----------------------------------------------------------------------------
(* Properties of the circuit breaker                                       *)

Settled == lastExec.op \in {"success", "failure"}

\* C15: with calls made one at a time, a failure while CLOSED opens the
\* breaker exactly when it is the failureThreshold-th consecutive failure,
\* the counter equals the number of consecutive failures, a CLOSED breaker
\* has fewer than failureThreshold failures, and a success while CLOSED
\* resets the counter to zero.
C15_OpensAtThreshold ==
    ~overlapped =>
        /\ (lastExec.op = "failure" /\ lastExec.state = "CLOSED")
           => /\ failures = streak
              /\ streak = lastExec.streak + 1
              /\ (state = "OPEN") <=> (streak = FailureThreshold)
              /\ state \in {"OPEN", "CLOSED"}
        /\ (lastExec.op = "success" /\ lastExec.state = "CLOSED")
           => failures = 0 /\ state = "CLOSED"
        /\ state = "CLOSED" => failures < FailureThreshold
        /\ state = "OPEN" => failures >= FailureThreshold

C15_Witness ==
    /\ ~overlapped
    /\ lastExec.op = "failure"
    /\ lastExec.state = "CLOSED"
    /\ lastExec.failures = FailureThreshold - 1
    /\ state = "OPEN"
    /\ streak = FailureThreshold

\* C16: execute() on an OPEN breaker no later than resetTimeout after
\* lastFailureTime is rejected with CircuitBreakerError, the operation is not
\* invoked, and state, failure counter and lastFailureTime stay as they were.
C16_OpenRejects ==
    ( /\ lastExec.op \in {"invoked", "rejected"}
      /\ lastExec.state = "OPEN"
      /\ lastExec.at - lastExec.lastFailureTime <= ResetTimeout )
    => /\ lastExec.op = "rejected"
       /\ lastExec.error = "CircuitBreakerError"
       /\ lastExec.caller \notin inflight
       /\ state = lastExec.state
       /\ failures = lastExec.failures
       /\ lastFailureTime = lastExec.lastFailureTime

C16_Witness ==
    /\ lastExec.op = "rejected"
    /\ lastExec.state = "OPEN"
    /\ lastExec.at - lastExec.lastFailureTime = ResetTimeout
    /\ state = "OPEN"

\* C17: the first execute() on an OPEN breaker later than resetTimeout after
\* lastFailureTime moves it to HALF_OPEN and invokes the operation; when
\* that probe, with no other call in flight beside it, succeeds the breaker
\* is CLOSED with counter 0, and when it fails the breaker is OPEN with
\* lastFailureTime set to the time of the failure.
C17_ProbeDecides ==
    /\ ( /\ lastExec.op \in {"invoked", "rejected"}
         /\ lastExec.state = "OPEN"
         /\ lastExec.at - lastExec.lastFailureTime > ResetTimeout )
       => /\ lastExec.op = "invoked"
          /\ state = "HALF_OPEN"
          /\ lastExec.caller \in inflight
    /\ (Settled /\ lastExec.wasProbe /\ lastExec.wasAlone /\ lastExec.op = "success")
       => state = "CLOSED" /\ failures = 0
    /\ (Settled /\ lastExec.wasProbe /\ lastExec.wasAlone /\ lastExec.op = "failure")
       => state = "OPEN" /\ lastFailureTime = lastExec.at

\* C18: while the breaker is HALF_OPEN and its probe has not settled, no
\* other execute() call reaches the guarded operation.
C18_SingleProbeInFlight ==
    ~( /\ lastExec.op = "invoked"
       /\ lastExec.state = "HALF_OPEN"
       /\ lastExec.probing )

\* C28: when the timeout wins the race, execute() rejects and the failure
\* is counted exactly once (counter + 1, lastFailureTime set, OPEN at the
\* threshold); the operation's own later success or failure changes neither
\* the counter nor the state.
C28_TimeoutCountedOnce ==
    /\ (lastExec.op = "failure" /\ lastExec.outcome = "timeout")
       => /\ lastExec.error = "TimeoutError"
          /\ failures = lastExec.failures + 1
          /\ lastFailureTime = lastExec.at
          /\ failures >= FailureThreshold => state = "OPEN"
          /\ lastExec.caller \notin inflight
          /\ lastExec.caller \in orphans
    /\ lastExec.op = "late"
       => /\ state = lastExec.state
          /\ failures = lastExec.failures
          /\ lastFailureTime = lastExec.lastFailureTime
          /\ lastExec.caller \notin orphans

C28_Witness ==
    /\ lastExec.op = "late"
    /\ lastExec.outcome = "throw"
    /\ lastExec.state = "CLOSED"
    /\ lastExec.failures = 1
    /\ lastExec.at > lastExec.lastFailureTime

----------------------------------------------------------------------------
(* Properties of the idempotent handler                                    *)

\* the last delivery went to a handler made by createIdempotentHandler and
\* carried a business key
IdempotentDelivery ==
    /\ Delivered
    /\ last.kind = "idempotent"
    /\ last.msg.ok
    /\ last.msg.key # NoMessageKey

\* the number of successful runs of the business handler on messages with key k
SuccessfulRuns(k) ==
    Cardinality({ <<m, i>> \in Ids \X (1..(MaxMessages + MaxRetriesDefault + 1)) :
                    /\ trace[m].key = k
                    /\ i <= Len(trace[m].calls)
                    /\ trace[m].calls[i] = "ok" })

\* C19: of deliveries with the same business key handled one after the
\* other by an idempotent handler, the first runs the underlying handler and
\* records the key when it succeeds; a delivery whose key is recorded is
\* acknowledged without running the handler, so the handler succeeds at most
\* once per key.
C19_DuplicateRunsOnce ==
    /\ IdempotentDelivery =>
          /\ last.seen => /\ last.calls = <<>>
                          /\ last.hacts = <<"ack">>
                          /\ last.hthrew = NoError
                          /\ last.acts[1] = "ack"
                          /\ last.pubs = <<>>
          /\ ~last.seen => Len(last.calls) = 1
          /\ last.calls = <<"ok">> => last.msg.key \in processed
    /\ (\A q \in DOMAIN consumers : consumers[q] = "idempotent")
       => \A k \in Keys : SuccessfulRuns(k) <= 1

C19_Witness ==
    /\ IdempotentDelivery
    /\ last.seen
    /\ last.calls = <<>>
    /\ \E m \in Ids \ {last.msg.id} :
          trace[m].key = last.msg.key /\ trace[m].calls = <<"ok">>

\* C20: when the underlying handler of an idempotent handler fails, the key
\* is not recorded and the error is propagated; only keys of successful runs
\* are recorded, so a later delivery with the same key runs the handler
\* again.
C20_FailureNotRecorded ==
    /\ (IdempotentDelivery /\ last.calls = <<"throw">>)
       => /\ last.hthrew = "HandlerError"
          /\ last.msg.key \notin processed
    /\ \A k \in processed : SuccessfulRuns(k) >= 1
    /\ (IdempotentDelivery /\ last.msg.key \notin processed) => last.calls = <<"throw">>

C20_Witness ==
    /\ IdempotentDelivery
    /\ last.calls # <<>>
    /\ \E m \in Ids \ {last.msg.id} :
          trace[m].key = last.msg.key /\ trace[m].calls = <<"throw">>

\* the largest number of keys a bounded filter may retain in this model:
\* fewer than the distinct keys producers use
RetentionLimit == Cardinality(Keys) - 1

\* C21: the processed-key set of the idempotency filter stays within a
\* fixed bound however many distinct keys are processed successfully.
C21_ProcessedKeysBounded == Cardinality(processed) <= RetentionLimit

----------------------------------------------------------------------------
(* Properties of the api-gateway request/reply calls                       *)

\* C22: when a gateway call's timeout fires, the call is rejected with a
\* timeout error and its entry is removed from requestCache; a reply that
\* arrives after the timeout is acknowledged and changes neither the
\* cache nor the outcome of any call.
C22_TimeoutRejectsAndForgets ==
    /\ lastGw.op = "timeout" =>
          /\ lastGw.id \notin requestCache
          /\ settles[lastGw.id] = Append(lastGw.settlesBefore[lastGw.id], "TimeoutError")
          /\ timers[lastGw.id] = "fired"
    /\ (lastGw.op = "response" /\ lastGw.timerBefore = "fired") =>
          /\ lastGw.acked
          /\ settles = lastGw.settlesBefore
          /\ requestCache = lastGw.cacheBefore

C22_Witness ==
    /\ lastGw.op = "response"
    /\ lastGw.timerBefore = "fired"
    /\ settles[lastGw.id] = <<"TimeoutError">>

\* C23: a reply that arrives while its call is waiting settles the call
\* with the reply's data, or with the error the responder forwarded,
\* cancels the timer and removes the entry; no call is ever settled more
\* than once, so a call settled by its reply is never rejected by the
\* timeout afterwards.
C23_ReplySettlesOnce ==
    /\ (lastGw.op = "response" /\ lastGw.id \in lastGw.cacheBefore) =>
          /\ timers[lastGw.id] = "cleared"
          /\ lastGw.id \notin requestCache
          /\ lastGw.acked
          /\ settles[lastGw.id] =
                Append(lastGw.settlesBefore[lastGw.id],
                       IF lastGw.error THEN "ResponderError" ELSE "data")
    /\ \A id \in CallIds :
          /\ (\E i \in 1..Len(settles[id]) : settles[id][i] \in {"data", "ResponderError"})
                => Len(settles[id]) = 1
          /\ timers[id] = "armed" <=> id \in requestCache
          /\ id \in requestCache => settles[id] = <<>>

C23_Witness ==
    /\ lastGw.op = "response"
    /\ lastGw.id \in lastGw.cacheBefore
    /\ lastGw.error
    /\ \E id \in CallIds : settles[id] = <<"data">> /\ id # lastGw.id

----------------------------------------------------------------------------
(* Properties of RabbitMQConnection.rpc()                                  *)

PendingRpcCalls == { id \in RpcIds : rpcCalls[id] = "pending" }

\* C30: the reply subscriptions of rpc() that are live are those of the
\* calls still pending: a call that timed out (or was answered) has
\* released its subscription, so there are never more live reply
\* consumers than pending calls.
C30_ReplyConsumersReleased == rpcConsumers \subseteq PendingRpcCalls

----------------------------------------------------------------------------
(* Properties of the connection's reconnection logic                       *)

\* C24: reconnectAttempts never exceeds maxReconnectAttempts, whichever
\* way the reconnects started by the 'error' and 'close' handlers and by
\* failed attempts interleave, and every connect() that succeeds leaves it
\* at 0.
C24_AttemptsBoundedAndReset ==
    /\ reconnectAttempts <= MaxReconnectAttempts
    /\ lastConn.op = "connected" => reconnectAttempts = 0

C24_Witness ==
    /\ lastConn.op = "connected"
    /\ lastConn.task \in ReconnectTasks
    /\ "error" \in emitted
    /\ \E t \in ReconnectTasks : t # lastConn.task /\ tasks[t].pc # "idle"

\* no reconnect() is pending, none can start, and nothing is connected
Exhausted ==
    /\ reconnectAttempts >= MaxReconnectAttempts
    /\ connection = 0
    /\ ~isConnecting
    /\ \A t \in ReconnectTasks : tasks[t].pc = "idle"

\* C25: once maxReconnectAttempts attempts have failed and the connection
\* object has stopped trying, it has emitted a fatal 'unavailable' signal.
C25_GivingUpIsSignalled == Exhausted => "unavailable" \in emitted

\* C26: when a reconnect() started by an unexpected close has reconnected
\* and finished restoring, every queue that had a registered consumer has
\* a live subscription with the same handler on the current channel.
C26_ConsumersRestored ==
    lastConn.restored =>
        \A i \in 1..Len(registered) :
            \E s \in subs : /\ s.queue = registered[i].queue
                            /\ s.handler = registered[i].handler
                            /\ s.channel = channel
                            /\ channel # 0

C26_Witness ==
    /\ lastConn.restored
    /\ Len(registered) = Len(ServicePlan)
    /\ "disconnected" \in emitted

\* C27: a channel that closes while its connection stays open is
\* recovered locally: whenever the connection is open without a channel,
\* an invocation that will create a channel is in progress.
C27_ChannelRecovered ==
    (connection # 0 /\ channel = 0) =>
        \/ tasks[ServiceTask].pc \in {"dial", "channel", "setup"}
        \/ \E t \in ReconnectTasks : tasks[t].pc # "idle"

\* C29: the subscription of the order saga queue, consumed with
\* prefetch 1, never holds more than one unacknowledged delivery, also
\* after an automatic reconnection.
C29_SagaOneAtATime ==
    \A s \in subs : s.queue = SagaQueue => s.unacked <= 1

----------------------------------------------------------------------------
(* Properties of the reply path of the rabbitmq-intermediate gateway       *)

\* C31: a request that the order service handled and answered before the
\* deadline is not ended by the timeout: its answer reaches a queue the
\* gateway consumes and settles the call.
C31_AnsweredCallNotTimedOut ==
    \A id \in answered :
        \A i \in 1..Len(settles[id]) : settles[id][i] # "TimeoutError"

\* C39: requestCache holds the id of a call exactly while the call is
\* pending: the entry is there, with an armed timer, from makeRPCCall
\* until the call settles by reply, timeout or failed publish, and never
\* afterwards.
C39_WaitingTableMatchesPending ==
    /\ lastGw.op = "call" => lastGw.id \in requestCache /\ lastGw.id \in publishing
    /\ \A id \in CallIds :
          /\ id \in requestCache <=> (timers[id] # "none" /\ settles[id] = <<>>)
          /\ id \in requestCache => timers[id] = "armed"
          /\ id \notin requestCache => timers[id] # "armed"

C39_Witness ==
    /\ requestCache = {}
    /\ \E a \in CallIds, b \in CallIds :
          /\ settles[a] = <<"PublishError">>
          /\ settles[b] = <<"TimeoutError">>

----------------------------------------------------------------------------
(* Further properties of the circuit breaker, the saga and the batch       *)

\* C32: whenever the breaker is OPEN its failure counter is at least
\* failureThreshold, also when execute() calls overlap, and a call that
\* fails while the breaker is HALF_OPEN leaves it OPEN.
C32_OpenMeansThresholdReached ==
    /\ state = "OPEN" => failures >= FailureThreshold
    /\ (Settled /\ lastExec.op = "failure" /\ lastExec.state = "HALF_OPEN")
          => state = "OPEN"

\* the index of the last 'saga.start' event of a saga, 0 if none
LastStart(sagaId) ==
    LET starts == { i \in 1..Len(events) :
                      events[i].routingKey = "saga.start" /\ events[i].sagaId = sagaId }
    IN IF starts = {} THEN 0 ELSE CHOOSE i \in starts : \A j \in starts : j <= i

\* the step list a 'saga.start' event was published for
StartedSteps(e) == <<e.step>> \o e.remainingSteps

\* event i acknowledges the completion of step: it is the 'saga.continue'
\* for the step after it, or 'saga.completed' when the step is the last
AcceptsCompletion(i, steps, step) ==
    LET k == IndexOf(steps, step)
    IN \/ /\ k < Len(steps)
          /\ events[i].routingKey = "saga.continue"
          /\ events[i].step = steps[k + 1]
       \/ /\ k = Len(steps)
          /\ events[i].routingKey = "saga.completed"

\* C36: every 'saga.compensate' event names a step whose completion the
\* orchestrator accepted earlier in the same saga.
C36_OnlyCompletedStepsCompensated ==
    \A i \in 1..Len(events) :
        (events[i].routingKey = "saga.compensate"
            /\ i > LastStart(events[i].sagaId) /\ LastStart(events[i].sagaId) > 0)
        => \E j \in (LastStart(events[i].sagaId) + 1)..(i - 1) :
              /\ events[j].sagaId = events[i].sagaId
              /\ AcceptsCompletion(j, StartedSteps(events[LastStart(events[i].sagaId)]),
                                   events[i].step)

\* C40: messages waiting in the batch always have a flush coming: while
\* the batch is not empty its flush timer is armed, so that a flush
\* happens even if no further message arrives.
C40_PendingBatchHasFlushScheduled == batch # <<>> => flushTimer = "armed"

\* C33: the handler behind createIdempotentHandler completes successfully
\* at most once per business key, also when deliveries with the same key
\* are in flight at the same time.
C33_OneCompletionPerKey ==
    \A k \in Keys :
        Cardinality({ d \in DeliveryIds : runs[d].key = k /\ runs[d].pc = "done" }) <= 1

\* C34: for one saga instance at most one terminal event is published,
\* 'saga.completed' or 'saga.failed' and never both, also when a
\* handleStepFailed call and a handleStepComplete call for the saga overlap
\* at their publish awaits
C34_OneTerminalEvent ==
    \A sagaId \in SagaIds :
        Cardinality({ i \in (LastStart(sagaId) + 1)..Len(events) :
                        /\ events[i].sagaId = sagaId
                        /\ events[i].routingKey \in {"saga.completed", "saga.failed"} }) <= 1

\* C35: when the publish of 'saga.completed' throws, the saga is still
\* tracked after the handleStepComplete call
C35_FailedCompletionKeepsSaga ==
    ( /\ lastCall.op = "handleStepCompleteThrew"
      /\ IndexOf(lastCall.before[lastCall.sagaId], lastCall.step)
            = Len(lastCall.before[lastCall.sagaId]) )
    => lastCall.sagaId \in DOMAIN activeSteps

\* C37: a RabbitMQConnection holds at most one live broker connection: no
\* second connection is opened while an earlier one is still open
C37_AtMostOneOpenConnection == Cardinality(open) <= 1

\* C38: after disconnect() has completed the connection stays disconnected:
\* the 'close' events of the deliberate close start no reconnection and
\* isConnected() remains false.  The case checked is a shutdown in a run
\* where no connection or channel has failed.
C38_DisconnectStaysDisconnected ==
    (tasks[ServiceTask].pc = "stopped" /\ drops = 0)
    => /\ \A t \in ReconnectTasks : tasks[t].pc = "idle"
       /\ ~IsConnected

====
